---- MODULE Spec2Model ----
(***************************************************************************)
(* A model of jerasure-rs: the erasure-code builder, the ErasureCode       *)
(* encode/decode front end (src/src/erasure.rs), the CodeWord and Error    *)
(* types (src/src/lib.rs) and the jerasure routines they call.             *)
(*                                                                         *)
(* The Rust side is translated from the source.  The jerasure C routines   *)
(* (the jerasure_sys crate) are not part of the source tree; they are      *)
(* modelled by what they compute (GF(2^w) arithmetic, generator matrices,  *)
(* matrix / bit-matrix dot products, decoding by matrix inversion) and     *)
(* by the memory they touch.                                               *)
(***************************************************************************)
EXTENDS Integers, Sequences, FiniteSets, TLC

(***************************************************************************)
(* Bounds of the model.                                                    *)
(***************************************************************************)
\* largest number of data devices k given to the builder
MaxK == 2
\* largest number of coding devices m used by the encode/decode runs
MaxM == 2

(***************************************************************************)
(* Program constants.                                                      *)
(***************************************************************************)
\* size_of::<c_long>() on the LP64 targets the crate is built for
MACHINE_LONG_SIZE == 8

(***************************************************************************)
(* Integer helpers.                                                        *)
(***************************************************************************)
RECURSIVE Pow2(_)
Pow2(n) == IF n = 0 THEN 1 ELSE 2 * Pow2(n - 1)

\* bitwise exclusive or of two naturals
RECURSIVE BitXor(_, _)
BitXor(a, b) ==
    IF a = 0 THEN b
    ELSE IF b = 0 THEN a
    ELSE (((a % 2) + (b % 2)) % 2) + 2 * BitXor(a \div 2, b \div 2)

\* bit i (0 = least significant) of the natural a
BitAt(a, i) == (a \div Pow2(i)) % 2

\* the bounds of a 32-bit int (i32 in Rust, int in C)
I32_MAX == 2147483647

I32_MIN == (-I32_MAX) - 1

\* a + b of two ints in C where the sum leaves the range: the behaviour
\* is undefined, and the sum the processor computes is the wrapped one
int_add(a, b) ==
    IF b > 0 /\ a > I32_MAX - b THEN (a - I32_MAX - 1) + (b - I32_MAX - 1)
    ELSE IF b < 0 /\ a < I32_MIN - b THEN (a + I32_MAX + 1) + (b + I32_MAX + 1)
    ELSE a + b

(***************************************************************************)
(* GF(2^w): the scalar routines of galois.c behind GaloisField.            *)
(***************************************************************************)
\* the default primitive polynomial of GF(2^w)
PrimPoly(w) ==
    CASE w = 1 -> 3
      [] w = 2 -> 7
      [] w = 3 -> 11
      [] w = 4 -> 19
      [] w = 8 -> 285
      [] w = 12 -> 4179
      [] w = 16 -> 69643

\* multiplication by x (i.e. by 2) in GF(2^w)
GfXtime(a, w) ==
    LET s == 2 * a
    IN  IF s >= Pow2(w) THEN BitXor(s, PrimPoly(w)) ELSE s

RECURSIVE galois_single_multiply(_, _, _)
galois_single_multiply(a, b, w) ==
    IF a = 0 \/ b = 0 THEN 0
    ELSE BitXor(IF b % 2 = 1 THEN a ELSE 0,
                galois_single_multiply(GfXtime(a, w), b \div 2, w))

\* a^(2^n) * acc, by n squarings: used for the inverse a^(2^w - 2)
RECURSIVE GfInvLoop(_, _, _, _)
GfInvLoop(sq, acc, n, w) ==
    IF n = 0 THEN acc
    ELSE LET s2 == galois_single_multiply(sq, sq, w)
         IN  GfInvLoop(s2, galois_single_multiply(acc, s2, w), n - 1, w)

galois_single_divide(a, b, w) ==
    IF a = 0 THEN 0
    ELSE IF b = 0 THEN -1
    ELSE IF b = 1 THEN a
    ELSE galois_single_multiply(a, GfInvLoop(b, 1, w - 1, w), w)

(***************************************************************************)
(* Generator matrices (reed_sol.c, cauchy.c).  A matrix is a sequence of   *)
(* rows; NULL is the null pointer a failed construction returns.           *)
(***************************************************************************)
NULL == <<>>

RECURSIVE GfPow(_, _, _)
GfPow(a, n, w) == IF n = 0 THEN 1 ELSE galois_single_multiply(a, GfPow(a, n - 1, w), w)

\* rows x cols extended Vandermonde matrix: row 0 = e_0, last row = e_(cols-1),
\* row i = (i^0, i^1, ...)
reed_sol_extended_vandermonde_matrix(rows, cols, w) ==
    IF w < 30 /\ (Pow2(w) < rows \/ Pow2(w) < cols) THEN NULL
    ELSE [i \in 1..rows |-> [j \in 1..cols |->
            IF i = 1 THEN (IF j = 1 THEN 1 ELSE 0)
            ELSE IF i = rows THEN (IF j = cols THEN 1 ELSE 0)
            ELSE GfPow(i - 1, j - 1, w)]]

\* index of the first row at or below row i whose entry in column i is not zero
RECURSIVE VdmPivotRow(_, _, _)
VdmPivotRow(dist, i, j) ==
    IF j > Len(dist) THEN 0
    ELSE IF dist[j][i] # 0 THEN j
    ELSE VdmPivotRow(dist, i, j + 1)

\* one step of the elimination that turns the top cols x cols block into the
\* identity by column operations (i is the 1-based row/column being fixed)
VdmStep(dist, i, w) ==
    LET p    == VdmPivotRow(dist, i, i)
        sw   == [r \in 1..Len(dist) |->
                    IF r = i THEN dist[p] ELSE IF r = p THEN dist[i] ELSE dist[r]]
        inv  == galois_single_divide(1, sw[i][i], w)
        sc   == [r \in 1..Len(dist) |-> [c \in 1..Len(dist[1]) |->
                    IF c = i /\ sw[i][i] # 1
                    THEN galois_single_multiply(inv, sw[r][c], w) ELSE sw[r][c]]]
    IN  [r \in 1..Len(dist) |-> [c \in 1..Len(dist[1]) |->
            IF c # i /\ sc[i][c] # 0
            THEN BitXor(sc[r][c], galois_single_multiply(sc[i][c], sc[r][i], w))
            ELSE sc[r][c]]]

RECURSIVE VdmEliminate(_, _, _, _)
VdmEliminate(dist, i, cols, w) ==
    IF i > cols THEN dist ELSE VdmEliminate(VdmStep(dist, i, w), i + 1, cols, w)

reed_sol_big_vandermonde_distribution_matrix(rows, cols, w) ==
    IF cols >= rows THEN NULL
    ELSE LET vdm == reed_sol_extended_vandermonde_matrix(rows, cols, w)
         IN  IF vdm = NULL THEN NULL
             ELSE
             LET d1 == VdmEliminate(vdm, 2, cols, w)
                 \* make row k (the first coding row) all ones: scale each column
                 \* of the coding rows
                 d2 == [r \in 1..rows |-> [c \in 1..cols |->
                          IF r > cols /\ d1[cols + 1][c] # 1
                          THEN galois_single_multiply(
                                   galois_single_divide(1, d1[cols + 1][c], w), d1[r][c], w)
                          ELSE d1[r][c]]]
                 \* make the first column of the later coding rows one: scale rows
             IN  [r \in 1..rows |-> [c \in 1..cols |->
                    IF r > cols + 1 /\ d2[r][1] # 1
                    THEN galois_single_multiply(
                             d2[r][c], galois_single_divide(1, d2[r][1], w), w)
                    ELSE d2[r][c]]]

\* the m x k coding matrix: the last m rows of the distribution matrix
reed_sol_vandermonde_coding_matrix(k, m, w) ==
    LET LastRows(vdm) == IF vdm = NULL THEN NULL ELSE [i \in 1..m |-> vdm[k + i]]
    IN  LastRows(reed_sol_big_vandermonde_distribution_matrix(int_add(k, m), k, w))

\* number of ones in the w x w bit-matrix of the element n
RECURSIVE NOnesCols(_, _, _)
NOnesCols(n, x, w) ==
    IF x = 0 THEN 0
    ELSE LET RECURSIVE Pop(_)
             Pop(v) == IF v = 0 THEN 0 ELSE (v % 2) + Pop(v \div 2)
         IN  Pop(n) + NOnesCols(GfXtime(n, w), x - 1, w)

cauchy_n_ones(n, w) == NOnesCols(n, w, w)

cauchy_original_coding_matrix(k, m, w) ==
    IF w < 31 /\ int_add(k, m) > Pow2(w) THEN NULL
    \* talloc(int, k*m) of a matrix that fills the address space
    ELSE IF k > I32_MAX - m THEN NULL
    ELSE [i \in 1..m |-> [j \in 1..k |->
            galois_single_divide(1, BitXor(i - 1, m + j - 1), w)]]

RECURSIVE SumSeq(_)
SumSeq(s) == IF s = <<>> THEN 0 ELSE Head(s) + SumSeq(Tail(s))

RowOnes(row, w) == SumSeq([j \in 1..Len(row) |-> cauchy_n_ones(row[j], w)])

RowDiv(row, e, w) ==
    [j \in 1..Len(row) |->
        galois_single_multiply(row[j], galois_single_divide(1, e, w), w)]

\* the divisor search of cauchy_improve_coding_matrix for one row: the index
\* of the element to divide by (0: keep the row), scanning j = 1..k
RECURSIVE ImproveScan(_, _, _, _, _)
ImproveScan(row, j, bno, bnoIndex, w) ==
    IF j > Len(row) THEN bnoIndex
    ELSE IF row[j] = 1 THEN ImproveScan(row, j + 1, bno, bnoIndex, w)
    ELSE LET tno == RowOnes(RowDiv(row, row[j], w), w)
         IN  IF tno < bno THEN ImproveScan(row, j + 1, tno, j, w)
             ELSE ImproveScan(row, j + 1, bno, bnoIndex, w)

cauchy_improve_coding_matrix(k, m, w, matrix) ==
    LET cn == [i \in 1..m |-> [j \in 1..k |->
                 IF matrix[1][j] # 1
                 THEN galois_single_multiply(
                          matrix[i][j], galois_single_divide(1, matrix[1][j], w), w)
                 ELSE matrix[i][j]]]
    IN  [i \in 1..m |->
            IF i = 1 THEN cn[1]
            ELSE LET b == ImproveScan(cn[i], 1, RowOnes(cn[i], w), 0, w)
                 IN  IF b = 0 THEN cn[i] ELSE RowDiv(cn[i], cn[i][b], w)]

\* the precomputed best RAID-6 second rows; cbest_max_k[w] is the longest
cbest_max_k(w) ==
    CASE w = 2 -> 3
      [] w = 3 -> 7
      [] w = 4 -> 15
      [] w = 8 -> 255
      [] OTHER -> -1

cbest_all(w) ==
    CASE w = 2 -> <<1, 2, 3>>
      [] w = 3 -> <<1, 2, 5, 4, 7, 3, 6>>
      [] w = 4 -> <<1, 2, 9, 4, 8, 13, 3, 6, 12, 5, 11, 15, 10, 14, 7>>
      [] w = 8 -> <<1, 2, 142, 4, 71, 8, 70, 173>>

cauchy_good_general_coding_matrix(k, m, w) ==
    IF m = 2 /\ k <= cbest_max_k(w)
    THEN << [j \in 1..k |-> 1], [j \in 1..k |-> cbest_all(w)[j]] >>
    ELSE LET matrix == cauchy_original_coding_matrix(k, m, w)
         IN  IF matrix = NULL THEN NULL
             ELSE cauchy_improve_coding_matrix(k, m, w, matrix)

(***************************************************************************)
(* Matrix inversion over GF(2^w) (jerasure_invert_matrix; with w = 1 it is *)
(* jerasure_invert_bitmatrix).  NULL when the matrix is singular.          *)
(***************************************************************************)
RECURSIVE PivotRow(_, _, _)
PivotRow(A, i, r) ==
    IF r > Len(A) THEN 0
    ELSE IF A[r][i] # 0 THEN r
    ELSE PivotRow(A, i, r + 1)

\* Gauss-Jordan on the augmented matrix A = [mat | identity], column i onwards
RECURSIVE InvertFrom(_, _, _)
InvertFrom(A, i, w) ==
    IF i > Len(A) THEN A
    ELSE LET p == PivotRow(A, i, i)
         IN  IF p = 0 THEN NULL
             ELSE
             LET sw  == [r \in 1..Len(A) |->
                            IF r = i THEN A[p] ELSE IF r = p THEN A[i] ELSE A[r]]
                 inv == galois_single_divide(1, sw[i][i], w)
                 pr  == [c \in 1..Len(sw[i]) |-> galois_single_multiply(sw[i][c], inv, w)]
                 el  == [r \in 1..Len(A) |->
                            IF r = i THEN pr
                            ELSE IF sw[r][i] = 0 THEN sw[r]
                            ELSE [c \in 1..Len(pr) |->
                                     BitXor(sw[r][c],
                                            galois_single_multiply(sw[r][i], pr[c], w))]]
             IN  InvertFrom(el, i + 1, w)

jerasure_invert_matrix(mat, w) ==
    LET n   == Len(mat)
        aug == [r \in 1..n |-> [c \in 1..(2 * n) |->
                   IF c <= n THEN mat[r][c] ELSE IF c - n = r THEN 1 ELSE 0]]
        red == InvertFrom(aug, 1, w)
    IN  IF red = NULL THEN NULL
        ELSE [r \in 1..n |-> [c \in 1..n |-> red[r][n + c]]]

(***************************************************************************)
(* Regions of bytes.                                                       *)
(***************************************************************************)
\* nibble table of exclusive or, and the exclusive or of two bytes
XorNib == [a \in 0..15 |-> [b \in 0..15 |-> BitXor(a, b)]]

XorByte(a, b) == 16 * XorNib[a \div 16][b \div 16] + XorNib[a % 16][b % 16]

\* galois_region_xor: r2 ^= r1, bytewise
galois_region_xor(r1, r2) == [i \in 1..Len(r2) |-> XorByte(r1[i], r2[i])]

\* the products of the w-bit words of a region by multby (words are
\* little-endian groups of w/8 bytes)
RegionProduct(region, multby, w) ==
    IF w = 8
    THEN [i \in 1..Len(region) |-> galois_single_multiply(region[i], multby, 8)]
    ELSE LET nb == w \div 8
             word(q) == SumSeq([j \in 1..nb |->
                            region[q * nb + j] * Pow2(8 * (j - 1))])
         IN  [i \in 1..Len(region) |->
                (galois_single_multiply(word((i - 1) \div nb), multby, w)
                     \div Pow2(8 * ((i - 1) % nb))) % 256]

\* galois_w08/w16_region_multiply(region, multby, nbytes, r2, add): with add
\* set the products are xor-ed into r2, otherwise they replace it
galois_region_multiply(region, multby, w, r2, add) ==
    IF add # 0 THEN galois_region_xor(RegionProduct(region, multby, w), r2)
    ELSE RegionProduct(region, multby, w)

\* galois_w32_region_multiply(region, multby, nbytes, r2, add), for the
\* multipliers 0 and 1, whose products are 0 and the word itself
galois_w32_region_multiply(region, multby, r2, add) ==
    LET product == CASE multby = 0 -> [i \in 1..Len(region) |-> 0]
                     [] multby = 1 -> region
    IN  IF add # 0 THEN galois_region_xor(product, r2) ELSE product

(***************************************************************************)
(* The matrix technique (jerasure.c).  blk is the sequence of the k+m      *)
(* device buffers, device d (0-based) at blk[d + 1].                       *)
(***************************************************************************)
\* the accumulation loop of jerasure_matrix_dotprod over source i..k;
\* init says whether dest has been started
RECURSIVE DotprodLoop(_, _, _, _, _, _, _)
DotprodLoop(row, srcs, blk, dest, init, i, w) ==
    IF i > Len(row) THEN dest
    ELSE IF row[i] = 0 THEN DotprodLoop(row, srcs, blk, dest, init, i + 1, w)
    ELSE LET sp == blk[srcs[i] + 1]
             nd == IF row[i] = 1
                   THEN (IF init = 0 THEN sp ELSE galois_region_xor(sp, dest))
                   ELSE galois_region_multiply(sp, row[i], w, dest, init)
         IN  DotprodLoop(row, srcs, blk, nd, 1, i + 1, w)

\* dest device := sum of matrix_row[i] * source i; untouched when the row is zero
jerasure_matrix_dotprod(k, w, matrix_row, src_ids, dest_id, blk) ==
    LET srcs == IF src_ids = NULL THEN [i \in 1..k |-> i - 1] ELSE src_ids
    IN  [blk EXCEPT ![dest_id + 1] =
            DotprodLoop(matrix_row, srcs, blk, blk[dest_id + 1], 0, 1, w)]

RECURSIVE MatrixEncodeLoop(_, _, _, _, _, _)
MatrixEncodeLoop(k, m, w, matrix, blk, i) ==
    IF i > m THEN blk
    ELSE MatrixEncodeLoop(k, m, w, matrix,
             jerasure_matrix_dotprod(k, w, matrix[i], NULL, k + i - 1, blk), i + 1)

jerasure_matrix_encode(k, m, w, matrix, blk) == MatrixEncodeLoop(k, m, w, matrix, blk, 1)

\* erased[d + 1] = 1 for the devices named before the -1 terminator; NULL
\* when fewer than k devices remain
jerasure_erasures_to_erased(k, m, erasures) ==
    LET n  == CHOOSE i \in 1..Len(erasures) :
                  erasures[i] = -1 /\ \A j \in 1..(i - 1) : erasures[j] # -1
        es == {erasures[i] : i \in 1..(n - 1)}
    IN  IF k + m - Cardinality(es) < k THEN NULL
        ELSE [d \in 1..(k + m) |-> IF (d - 1) \in es THEN 1 ELSE 0]

\* the first k surviving devices, in order
RECURSIVE SurvivorIds(_, _, _)
SurvivorIds(erased, d, k) ==
    IF k = 0 THEN <<>>
    ELSE IF erased[d + 1] = 0 THEN <<d>> \o SurvivorIds(erased, d + 1, k - 1)
    ELSE SurvivorIds(erased, d + 1, k)

\* [ids, mat]: the surviving devices and the inverse of their generator rows
jerasure_make_decoding_matrix(k, m, w, matrix, erased) ==
    LET dm_ids == SurvivorIds(erased, 0, k)
        tmpmat == [i \in 1..k |->
                     IF dm_ids[i] < k
                     THEN [j \in 1..k |-> IF j - 1 = dm_ids[i] THEN 1 ELSE 0]
                     ELSE matrix[dm_ids[i] - k + 1]]
    IN  [ids |-> dm_ids, mat |-> jerasure_invert_matrix(tmpmat, w)]

RECURSIVE DecodeDataLoop(_, _, _, _, _, _, _, _)
DecodeDataLoop(k, w, dm, erased, blk, edd, lastdrive, i) ==
    IF ~(edd > 0 /\ i < lastdrive) THEN [blk |-> blk, edd |-> edd]
    ELSE IF erased[i + 1] = 1
         THEN DecodeDataLoop(k, w, dm, erased,
                  jerasure_matrix_dotprod(k, w, dm.mat[i + 1], dm.ids, i, blk),
                  edd - 1, lastdrive, i + 1)
         ELSE DecodeDataLoop(k, w, dm, erased, blk, edd, lastdrive, i + 1)

RECURSIVE ReencodeLoop(_, _, _, _, _, _, _)
ReencodeLoop(k, m, w, matrix, erased, blk, i) ==
    IF i > m THEN blk
    ELSE ReencodeLoop(k, m, w, matrix, erased,
             IF erased[k + i] = 1
             THEN jerasure_matrix_dotprod(k, w, matrix[i], NULL, k + i - 1, blk)
             ELSE blk, i + 1)

\* [ret, blk]: ret = 0 and the repaired buffers, or ret = -1
jerasure_matrix_decode(k, m, w, matrix, row_k_ones, erasures, blk) ==
    IF w # 8 /\ w # 16 /\ w # 32 THEN [ret |-> -1, blk |-> blk]
    ELSE
    LET erased == jerasure_erasures_to_erased(k, m, erasures)
    IN  IF erased = NULL THEN [ret |-> -1, blk |-> blk]
        ELSE
        LET edds == {i \in 0..(k - 1) : erased[i + 1] = 1}
            edd  == Cardinality(edds)
            lastdrive == IF row_k_ones = 0 \/ erased[k + 1] = 1 \/ edd = 0 THEN k
                         ELSE CHOOSE i \in edds : \A j \in edds : j <= i
            need == edd > 1 \/ (edd > 0 /\ (row_k_ones = 0 \/ erased[k + 1] = 1))
            tmpids == [i \in 1..k |-> IF i - 1 < lastdrive THEN i - 1 ELSE i]
            \* the last data device by the row of ones, then the coding devices
            Finish(s1) ==
                [ret |-> 0,
                 blk |-> ReencodeLoop(k, m, w, matrix, erased,
                             IF s1.edd > 0
                             THEN jerasure_matrix_dotprod(k, w, matrix[1], tmpids,
                                                          lastdrive, s1.blk)
                             ELSE s1.blk, 1)]
            WithMatrix(dm) ==
                IF need /\ dm.mat = NULL THEN [ret |-> -1, blk |-> blk]
                ELSE Finish(DecodeDataLoop(k, w, dm, erased, blk, edd, lastdrive, 0))
        IN  WithMatrix(IF need
                       THEN jerasure_make_decoding_matrix(k, m, w, matrix, erased)
                       ELSE [ids |-> NULL, mat |-> NULL])

(***************************************************************************)
(* The packet techniques (bit-matrix, schedule, schedule cache).  They     *)
(* address memory through raw pointers and a caller-given size, and move   *)
(* it a long at a time, so they run on a flat memory of words of           *)
(* MACHINE_LONG_SIZE bytes: mem holds the k+m buffers of size bytes,       *)
(* device d in the words d*sw + 1 .. (d+1)*sw, sw = size / 8.  env         *)
(* describes what the call cannot see: lay, how the caller laid the        *)
(* buffers out in memory; g, the byte a read outside every buffer yields;  *)
(* ndebug, whether the library was built without assertions; crash,        *)
(* whether an access outside the buffers kills the process; u1, u2, the    *)
(* words found in uninitialized memory; after, the words of the buffers    *)
(* of another caller that follow a contiguous stripe in memory.            *)
(***************************************************************************)
RECURSIVE Flatten(_)
Flatten(ss) == IF ss = <<>> THEN <<>> ELSE Head(ss) \o Flatten(Tail(ss))

\* the words of a buffer, and of the buffers one after the other
WordsOf(buf) ==
    [q \in 1..(Len(buf) \div MACHINE_LONG_SIZE) |->
        [i \in 1..MACHINE_LONG_SIZE |-> buf[(q - 1) * MACHINE_LONG_SIZE + i]]]

Words(bufs) == Flatten([d \in 1..Len(bufs) |-> WordsOf(bufs[d])])

\* the buffers after the call: the words of mem, and past the last whole
\* word of a buffer the bytes it had
Unflatten(mem, bufs) ==
    [d \in 1..Len(bufs) |-> [i \in 1..Len(bufs[d]) |->
        LET sw == Len(bufs[1]) \div MACHINE_LONG_SIZE
            q  == (i - 1) \div MACHINE_LONG_SIZE
        IN  IF q < sw /\ (d - 1) * sw + q + 1 <= Len(mem)
            THEN mem[(d - 1) * sw + q + 1][((i - 1) % MACHINE_LONG_SIZE) + 1]
            ELSE bufs[d][i]]]

XorWord(a, b) == [i \in 1..MACHINE_LONG_SIZE |-> XorByte(a[i], b[i])]

\* position of device d in a contiguous stripe
StripePos(lay, d, k, m) ==
    IF lay = "data_first" THEN d
    ELSE IF d >= k THEN d - k ELSE m + d

\* device at position p of a contiguous stripe
StripeDev(lay, p, k, m) ==
    IF lay = "data_first" THEN p
    ELSE IF p < m THEN k + p ELSE p - m

\* index in mem of word o of device d, 0 when it lies outside every
\* buffer; sw is the size of a buffer in words.  The words of env.after
\* follow the stripe in memory, and in mem.
Addr(env, d, o, sw, k, m) ==
    IF o < sw THEN d * sw + o + 1
    ELSE IF env.lay = "separate" THEN 0
    ELSE LET gl == StripePos(env.lay, d, k, m) * sw + o
         IN  IF gl < (k + m) * sw
             THEN StripeDev(env.lay, gl \div sw, k, m) * sw + (gl % sw) + 1
             ELSE IF gl < (k + m) * sw + Len(env.after) THEN gl + 1
             ELSE 0

\* one operation of a schedule on the group at sptr: copy (memcpy) or xor
\* (galois_region_xor) ps bytes from packet sp of device sd to packet dp of
\* device dd, word t onwards
RECURSIVE PacketWords(_, _, _, _, _, _, _, _, _)
PacketWords(st, op, sptr, ps, size, k, m, env, t) ==
    IF t = ps \div MACHINE_LONG_SIZE THEN st
    ELSE LET sw  == size \div MACHINE_LONG_SIZE
             dst == Addr(env, op.dd, ((sptr + op.dp * ps) \div MACHINE_LONG_SIZE) + t,
                         sw, k, m)
             src == Addr(env, op.sd, ((sptr + op.sp * ps) \div MACHINE_LONG_SIZE) + t,
                         sw, k, m)
             b   == IF src = 0 THEN [i \in 1..MACHINE_LONG_SIZE |-> env.g]
                    ELSE st.mem[src]
         IN  PacketWords(
                 [mem  |-> IF dst = 0 THEN st.mem
                           ELSE [st.mem EXCEPT ![dst] =
                                    IF op.copy THEN b ELSE XorWord(st.mem[dst], b)],
                  wild |-> st.wild \/ dst = 0 \/ src = 0],
                 op, sptr, ps, size, k, m, env, t + 1)

PacketOp(st, op, sptr, ps, size, k, m, env) ==
    PacketWords(st, op, sptr, ps, size, k, m, env, 0)

\* jerasure_do_scheduled_operations on the group at sptr
RECURSIVE jerasure_do_scheduled_operations(_, _, _, _, _, _, _, _)
jerasure_do_scheduled_operations(st, schedule, sptr, ps, size, k, m, env) ==
    IF schedule = <<>> THEN st
    ELSE jerasure_do_scheduled_operations(
             PacketOp(st, Head(schedule), sptr, ps, size, k, m, env),
             Tail(schedule), sptr, ps, size, k, m, env)

\* the loop "for (tdone = 0; tdone < size; tdone += ps*w)" around a schedule
RECURSIVE ScheduleLoop(_, _, _, _, _, _, _, _, _)
ScheduleLoop(st, schedule, tdone, w, ps, size, k, m, env) ==
    IF ~(tdone < size) THEN st
    ELSE ScheduleLoop(
             jerasure_do_scheduled_operations(st, schedule, tdone, ps, size, k, m, env),
             schedule, tdone + ps * w, w, ps, size, k, m, env)

\* bit (l, x) of element i, j is bit l of elt * 2^x
RECURSIVE MulPow2(_, _, _)
MulPow2(e, x, w) == IF x = 0 THEN e ELSE MulPow2(GfXtime(e, w), x - 1, w)

jerasure_matrix_to_bitmatrix(k, m, w, matrix) ==
    [r \in 1..(m * w) |-> [c \in 1..(k * w) |->
        BitAt(MulPow2(matrix[((r - 1) \div w) + 1][((c - 1) \div w) + 1],
                      (c - 1) % w, w),
              (r - 1) % w)]]

\* the operations that build packet j of dest_id from one bit-matrix row:
\* the first source packet is copied, the others are xor-ed in
PacketRowOps(k, w, bitrow, srcs, dest_id, j) ==
    LET ones == SelectSeq([c \in 1..(k * w) |-> c], LAMBDA c : bitrow[c] = 1)
    IN  [i \in 1..Len(ones) |->
            [dd   |-> dest_id,
             dp   |-> j,
             sd   |-> srcs[((ones[i] - 1) \div w) + 1],
             sp   |-> (ones[i] - 1) % w,
             copy |-> (i = 1)]]

\* the operations that build the w packets of dest_id from the w rows bitrows
DeviceOps(k, w, bitrows, src_ids, dest_id) ==
    LET srcs == IF src_ids = NULL THEN [i \in 1..k |-> i - 1] ELSE src_ids
    IN  Flatten([j \in 1..w |->
            PacketRowOps(k, w, bitrows[j], srcs, dest_id, j - 1)])

\* jerasure_bitmatrix_dotprod: every group of one destination device
jerasure_bitmatrix_dotprod(k, w, bitrows, src_ids, dest_id, st, size, ps, m, env) ==
    ScheduleLoop(st, DeviceOps(k, w, bitrows, src_ids, dest_id),
                 0, w, ps, size, k, m, env)

\* the w bit-matrix rows of coding device i (1-based)
CodingRows(bitmatrix, i, w) == [l \in 1..w |-> bitmatrix[(i - 1) * w + l]]

RECURSIVE BitEncodeLoop(_, _, _, _, _, _, _, _, _)
BitEncodeLoop(k, m, w, bitmatrix, st, size, ps, env, i) ==
    IF i > m THEN st
    ELSE BitEncodeLoop(k, m, w, bitmatrix,
             jerasure_bitmatrix_dotprod(k, w, CodingRows(bitmatrix, i, w), NULL,
                                        k + i - 1, st, size, ps, m, env),
             size, ps, env, i + 1)

\* [abort, mem, wild]: the assertion on size stops the process unless the
\* library was built with NDEBUG
jerasure_bitmatrix_encode(k, m, w, bitmatrix, mem, size, ps, env) ==
    LET st0 == [mem |-> mem, wild |-> FALSE]
    IN  IF ~env.ndebug /\ (ps % MACHINE_LONG_SIZE # 0 \/ size % (ps * w) # 0)
        THEN [abort |-> TRUE] @@ st0
        ELSE [abort |-> FALSE]
             @@ BitEncodeLoop(k, m, w, bitmatrix, st0, size, ps, env, 1)

\* the schedule of a bit-matrix: the operations of one group, every coding
\* packet in turn.  Smart scheduling orders the packets and starts some of
\* them from an already computed one; what each packet ends up holding is the
\* same bit-matrix product.
jerasure_smart_bitmatrix_to_schedule(k, m, w, bitmatrix) ==
    Flatten([i \in 1..m |->
        DeviceOps(k, w, CodingRows(bitmatrix, i, w), NULL, k + i - 1)])

\* [abort, mem, wild]: size is not checked
jerasure_schedule_encode(k, m, w, schedule, mem, size, ps, env) ==
    [abort |-> FALSE]
    @@ ScheduleLoop([mem |-> mem, wild |-> FALSE], schedule, 0, w, ps, size, k, m, env)

\* [ids, mat]: the surviving devices and the inverse over GF(2) of their
\* bit-matrix rows (identity rows for a surviving data device)
jerasure_make_decoding_bitmatrix(k, m, w, bitmatrix, erased) ==
    LET dm_ids == SurvivorIds(erased, 0, k)
        tmpmat == [r \in 1..(k * w) |->
                     LET i == ((r - 1) \div w) + 1
                         l == (r - 1) % w
                     IN  IF dm_ids[i] < k
                         THEN [c \in 1..(k * w) |->
                                  IF c - 1 = dm_ids[i] * w + l THEN 1 ELSE 0]
                         ELSE bitmatrix[(dm_ids[i] - k) * w + l + 1]]
    IN  [ids |-> dm_ids, mat |-> jerasure_invert_matrix(tmpmat, 1)]

\* the dot products that repair the erased devices, in the order they are
\* made: the erased data devices from the survivors (the last one from the
\* first coding device when its row is all ones and it survives), then the
\* erased coding devices from the data
DecodeTargets(k, m, w, bitmatrix, dm, erased, row_k_ones) ==
    LET dd == SelectSeq([i \in 1..k |-> i - 1], LAMBDA d : erased[d + 1] = 1)
        cd == SelectSeq([i \in 1..m |-> k + i - 1], LAMBDA d : erased[d + 1] = 1)
        lastdrive == IF row_k_ones # 1 \/ erased[k + 1] = 1 \/ dd = <<>> THEN k
                     ELSE dd[Len(dd)]
    IN  [i \in 1..Len(dd) |->
            IF dd[i] < lastdrive
            THEN [rows |-> CodingRows(dm.mat, dd[i] + 1, w), srcs |-> dm.ids,
                  dest |-> dd[i]]
            ELSE [rows |-> CodingRows(bitmatrix, 1, w),
                  srcs |-> [j \in 1..k |-> IF j - 1 < lastdrive THEN j - 1 ELSE j],
                  dest |-> dd[i]]]
        \o
        [i \in 1..Len(cd) |->
            [rows |-> CodingRows(bitmatrix, cd[i] - k + 1, w), srcs |-> NULL,
             dest |-> cd[i]]]

RECURSIVE DecodeDotprods(_, _, _, _, _, _, _, _)
DecodeDotprods(k, m, w, tg, st, size, ps, env) ==
    IF tg = <<>> THEN st
    ELSE DecodeDotprods(k, m, w, Tail(tg),
             jerasure_bitmatrix_dotprod(k, w, Head(tg).rows, Head(tg).srcs,
                                        Head(tg).dest, st, size, ps, m, env),
             size, ps, env)

\* [ret, abort, mem, wild].  Every dot product asserts that size is a
\* multiple of w * packetsize.
jerasure_bitmatrix_decode(k, m, w, bitmatrix, row_k_ones, erasures, mem, size, ps, env) ==
    LET st0    == [mem |-> mem, wild |-> FALSE]
        erased == jerasure_erasures_to_erased(k, m, erasures)
        fail   == [ret |-> -1, abort |-> FALSE] @@ st0
    IN  IF erased = NULL THEN fail
        ELSE
        LET edd  == Cardinality({i \in 1..k : erased[i] = 1})
            need == edd > 1 \/ (edd > 0 /\ (row_k_ones # 1 \/ erased[k + 1] = 1))
            WithMatrix(dm) ==
                IF need /\ dm.mat = NULL THEN fail
                ELSE IF (\E d \in 1..(k + m) : erased[d] = 1)
                        /\ ~env.ndebug /\ size % (w * ps) # 0
                THEN [ret |-> 0, abort |-> TRUE] @@ st0
                ELSE [ret |-> 0, abort |-> FALSE]
                     @@ DecodeDotprods(k, m, w,
                            DecodeTargets(k, m, w, bitmatrix, dm, erased, row_k_ones),
                            st0, size, ps, env)
        IN  WithMatrix(IF need
                       THEN jerasure_make_decoding_bitmatrix(k, m, w, bitmatrix, erased)
                       ELSE [ids |-> NULL, mat |-> NULL])

\* jerasure_generate_decoding_schedule: the operations of one group that
\* repair the devices of erasures; NULL when the survivors do not determine
\* the data
jerasure_generate_decoding_schedule(k, m, w, bitmatrix, erasures) ==
    LET erased == jerasure_erasures_to_erased(k, m, erasures)
    IN  IF erased = NULL THEN NULL
        ELSE IF \A d \in 1..(k + m) : erased[d] = 0 THEN <<>>
        ELSE
        LET Ops(tg) == Flatten([i \in 1..Len(tg) |->
                           DeviceOps(k, w, tg[i].rows, tg[i].srcs, tg[i].dest)])
            WithMatrix(dm) ==
                IF dm.mat = NULL THEN NULL
                ELSE Ops(DecodeTargets(k, m, w, bitmatrix, dm, erased, 0))
        IN  WithMatrix(jerasure_make_decoding_bitmatrix(k, m, w, bitmatrix, erased))

\* [ret, abort, mem, wild]: the schedule is generated for the erasure pattern
\* at every call; size is not checked
jerasure_schedule_decode_lazy(k, m, w, bitmatrix, erasures, mem, size, ps, env) ==
    LET st0  == [mem |-> mem, wild |-> FALSE]
        fail == [ret |-> -1, abort |-> FALSE] @@ st0
        Run(schedule) ==
            IF schedule = NULL /\ erasures # <<-1>> THEN fail
            ELSE [ret |-> 0, abort |-> FALSE]
                 @@ ScheduleLoop(st0, schedule, 0, w, ps, size, k, m, env)
    IN  IF jerasure_erasures_to_erased(k, m, erasures) = NULL THEN fail
        ELSE Run(jerasure_generate_decoding_schedule(k, m, w, bitmatrix, erasures))

\* the decoding schedules of every pattern of one or two erased devices
\* (m = 2), at index e1 * (k+m) + e2 + 1
jerasure_generate_schedule_cache(k, m, w, bitmatrix, smart) ==
    [x \in 1..((k + m) * (k + m)) |->
        LET e1 == (x - 1) \div (k + m)
            e2 == (x - 1) % (k + m)
        IN  jerasure_generate_decoding_schedule(k, m, w, bitmatrix,
                IF e1 = e2 THEN <<e1, -1>>
                ELSE IF e1 < e2 THEN <<e1, e2, -1>> ELSE <<e2, e1, -1>>)]

\* [ret, abort, mem, wild]: the cache is indexed by erasures[0], erasures[1]
\* and erasures[2], read without looking for the terminator first.  Words
\* past the terminator are whatever the memory holds (env.u1, env.u2).  With
\* an empty erasure list the index is out of the cache and the pointers of
\* the targets are never set: whatever schedule is found runs on them (wild).
jerasure_schedule_decode_cache(k, m, w, scache, erasures, mem, size, ps, env) ==
    LET st0  == [mem |-> mem, wild |-> FALSE]
        e0   == erasures[1]
        e1   == IF e0 # -1 THEN erasures[2] ELSE env.u1
        e2   == IF e0 # -1 /\ e1 # -1 THEN erasures[3] ELSE env.u2
        fail == [ret |-> -1, abort |-> FALSE] @@ st0
    IN  IF e1 # -1 /\ e2 # -1 THEN fail
        ELSE IF e0 = -1 THEN [ret |-> 0, abort |-> FALSE, mem |-> mem, wild |-> TRUE]
        ELSE
        LET index == IF e1 = -1 THEN e0 * (k + m) + e0 ELSE e0 * (k + m) + e1
        IN  [ret |-> 0, abort |-> FALSE]
            @@ ScheduleLoop(st0, scache[index + 1], 0, w, ps, size, k, m, env)

(***************************************************************************)
(* The Rust side: values.  Option<T> is None or Some(v); a Result's error  *)
(* is a record of the Error enum; a call can also end the thread (Panic)   *)
(* or the process (Abort from an assertion of the C library, Crash from a  *)
(* memory fault), which are kinds of their own.                            *)
(***************************************************************************)
None == <<>>

Some(v) == <<v>>

\* a + b in i32: [panic, v].  profile is the build profile: arithmetic
\* overflow panics with overflow checks on ("debug") and wraps with them
\* off ("release").
add_i32(a, b, profile) ==
    IF b > 0 /\ a > I32_MAX - b
    THEN [panic |-> profile = "debug", v |-> (a - I32_MAX - 1) + (b - I32_MAX - 1)]
    ELSE IF b < 0 /\ a < I32_MIN - b
    THEN [panic |-> profile = "debug", v |-> (a + I32_MAX + 1) + (b + I32_MAX + 1)]
    ELSE [panic |-> FALSE, v |-> a + b]

\* 1 << n in i32, n a u8: [panic, v].  A shift by 32 or more overflows: it
\* panics with overflow checks on and shifts by n mod 32 with them off.
shl_i32(n, profile) ==
    LET sh == n % 32
    IN  [panic |-> n >= 32 /\ profile = "debug",
         v     |-> IF sh = 31 THEN I32_MIN ELSE Pow2(sh)]

\* enum CodeWord
W8 == [tag |-> "W8", w |-> 0]

W16 == [tag |-> "W16", w |-> 0]

W32 == [tag |-> "W32", w |-> 0]

Other(w) == [tag |-> "Other", w |-> w]

to_u8(self) ==
    CASE self.tag = "W8" -> 8
      [] self.tag = "W16" -> 16
      [] self.tag = "W32" -> 32
      [] self.tag = "Other" -> self.w

as_cint(self) ==
    CASE self.tag = "W8" -> 8
      [] self.tag = "W16" -> 16
      [] self.tag = "W32" -> 32
      [] self.tag = "Other" -> self.w

\* enum Error, and the outcomes that are not a Result
Ok == [kind |-> "Ok", msg |-> "", a |-> 0, b |-> 0]

too_many_erasure(erasures, max_erasures) ==
    [kind |-> "TooManyErasure", msg |-> "", a |-> erasures, b |-> max_erasures]

invalid_arguments(msg) == [kind |-> "InvalidArguments", msg |-> msg, a |-> 0, b |-> 0]

NotAligned(n) == [kind |-> "NotAligned", msg |-> "", a |-> n, b |-> 0]

not_supported(msg) == [kind |-> "NotSupported", msg |-> msg, a |-> 0, b |-> 0]

other(msg) == [kind |-> "Other", msg |-> msg, a |-> 0, b |-> 0]

Panic(msg) == [kind |-> "Panic", msg |-> msg, a |-> 0, b |-> 0]

Abort == [kind |-> "Abort", msg |-> "", a |-> 0, b |-> 0]

Crash == [kind |-> "Crash", msg |-> "", a |-> 0, b |-> 0]

NoResult == [kind |-> "None", msg |-> "", a |-> 0, b |-> 0]

\* the kinds of enum Error
ErrorKinds == {"TooManyErasure", "InvalidArguments", "NotAligned", "NotSupported", "Other"}

(***************************************************************************)
(* ErasureCodeBuilder.                                                     *)
(***************************************************************************)
ErasureCodeBuilder_new ==
    [k |-> None, m |-> None, w |-> W8, packet_size |-> None,
     tech |-> None, coding_method |-> None]

Builder_k(self, k) == [self EXCEPT !.k = Some(k)]

Builder_m(self, m) == [self EXCEPT !.m = Some(m)]

Builder_w(self, w) == [self EXCEPT !.w = w]

Builder_packet_size(self, packet_size) == [self EXCEPT !.packet_size = Some(packet_size)]

Builder_tech(self, tech) == [self EXCEPT !.tech = Some(tech)]

Builder_coding_method(self, method) == [self EXCEPT !.coding_method = Some(method)]

\* enum TechInner: Matrix(mat), BitMatrix(mat, packet_size),
\* Schedule {bmat: mat, packet_size, inner}, ScheduleCache {packet_size,
\* schedule: inner, cache}
TechInner(kind, mat, packet_size, inner, cache) ==
    [kind |-> kind, mat |-> mat, packet_size |-> packet_size,
     inner |-> inner, cache |-> cache]

\* the helpers of build return [res, v].  Those that keep or drop native
\* structures return ev too: the allocations and the releases they make,
\* in their order, as pairs <<"alloc" or "free", structure>>; a Matrix, a
\* Schedule or a ScheduleCache that goes out of scope is dropped, a raw
\* pointer that goes out of scope is not
reed_sol_vand_mat(self) ==
    LET Matrix(ptr) ==
            IF ptr = NULL
            THEN [res |-> other("Failed to create reed solomon vandermonde matrix"),
                  v |-> NULL]
            ELSE [res |-> Ok, v |-> ptr]
    IN  Matrix(reed_sol_vandermonde_coding_matrix(self.k[1], self.m[1], as_cint(self.w)))

cauchy_mat(self) ==
    IF self.k = None THEN [res |-> invalid_arguments("k is required"), v |-> NULL]
    ELSE IF self.m = None THEN [res |-> invalid_arguments("m is required"), v |-> NULL]
    ELSE
    LET Matrix(ptr) ==
            IF ptr = NULL
            THEN [res |-> other("Failed to create cauchy matrix"), v |-> NULL]
            ELSE [res |-> Ok, v |-> ptr]
    IN  Matrix(cauchy_good_general_coding_matrix(self.k[1], self.m[1], as_cint(self.w)))

mat_to_bitmat(self, mat) ==
    LET Matrix(ptr) ==
            IF ptr = NULL
            THEN [res |-> other("Failed to create bit matrix"), v |-> NULL]
            ELSE [res |-> Ok, v |-> ptr]
    IN  Matrix(jerasure_matrix_to_bitmatrix(self.k[1], self.m[1], as_cint(self.w), mat))

check_packet_size(self) ==
    IF self.packet_size = None
    THEN [res |-> invalid_arguments("packet_size is required"), v |-> 0]
    ELSE LET packet_size == self.packet_size[1]
         IN  IF packet_size <= 0
             THEN [res |-> invalid_arguments("packet_size must be greater than 0"), v |-> 0]
             ELSE IF packet_size % MACHINE_LONG_SIZE # 0
             THEN [res |-> invalid_arguments(
                              "packet_size must be a multiple of the machine long size"),
                   v |-> 0]
             ELSE [res |-> Ok, v |-> packet_size]

bmat_to_schedule(self, bmat) ==
    LET Schedule(p, ps) ==
            IF p = NULL
            THEN [res |-> other("Failed to create schedule"), v |-> NULL,
                  ev |-> <<<<"free", "bitmatrix">>>>]
            ELSE IF ps.res # Ok
            THEN \* bmat was moved into the Schedule being made and is dropped
                 \* by the ?; p is a raw pointer
                 [res |-> ps.res, v |-> NULL,
                  ev |-> <<<<"alloc", "schedule">>, <<"free", "bitmatrix">>>>]
            ELSE [res |-> Ok, v |-> TechInner("Schedule", bmat, ps.v, p, NULL),
                  ev |-> <<<<"alloc", "schedule">>>>]
    IN  Schedule(jerasure_smart_bitmatrix_to_schedule(self.k[1], self.m[1],
                                                      as_cint(self.w), bmat),
                 check_packet_size(self))

bmat_toschedule_cache(self, bmat) ==
    LET ScheduleCache(schedule, cache, ps) ==
            IF schedule = NULL
            THEN [res |-> other("Failed to create schedule"), v |-> NULL,
                  ev |-> <<<<"free", "bitmatrix">>>>]
            ELSE IF cache = NULL
            THEN \* jerasure_free_schedule(schedule)
                 [res |-> other("Failed to create schedule cache"), v |-> NULL,
                  ev |-> <<<<"alloc", "schedule">>, <<"free", "schedule">>,
                           <<"free", "bitmatrix">>>>]
            ELSE IF ps.res # Ok
            THEN \* schedule and cache are raw pointers
                 [res |-> ps.res, v |-> NULL,
                  ev |-> <<<<"alloc", "schedule">>, <<"alloc", "cache">>,
                           <<"free", "bitmatrix">>>>]
            ELSE \* bmat is dropped at the end of the function
                 [res |-> Ok,
                  v |-> TechInner("ScheduleCache", NULL, ps.v, schedule, cache),
                  ev |-> <<<<"alloc", "schedule">>, <<"alloc", "cache">>,
                           <<"free", "bitmatrix">>>>]
    IN  ScheduleCache(jerasure_smart_bitmatrix_to_schedule(self.k[1], self.m[1],
                                                           as_cint(self.w), bmat),
                      jerasure_generate_schedule_cache(self.k[1], self.m[1],
                                                       as_cint(self.w), bmat, 1),
                      check_packet_size(self))

\* the technique arm of build, mat the matrix of the coding method:
\* [res, v, ev] with v the TechInner.  mat is dropped where build returns
\* early and at the end of mat_to_bitmat, which takes it by value.
build_tech(self, tech, coding_method, mat) ==
    LET fail(e) == [res |-> e, v |-> NULL, ev |-> <<<<"free", "matrix">>>>]
        expanded == <<<<"alloc", "bitmatrix">>, <<"free", "matrix">>>>
        after(ev, r) == [r EXCEPT !.ev = ev \o @]
        BitMatrix(bmat, ps) ==
            IF bmat.res # Ok THEN fail(bmat.res)
            ELSE IF ps.res # Ok
            THEN [res |-> ps.res, v |-> NULL,
                  ev |-> expanded \o <<<<"free", "bitmatrix">>>>]
            ELSE [res |-> Ok, v |-> TechInner("BitMatrix", bmat.v, ps.v, NULL, NULL),
                  ev |-> expanded]
        Schedule(bmat) ==
            IF bmat.res # Ok THEN fail(bmat.res)
            ELSE after(expanded, bmat_to_schedule(self, bmat.v))
        ScheduleCache(bmat) ==
            IF bmat.res # Ok THEN fail(bmat.res)
            ELSE after(expanded, bmat_toschedule_cache(self, bmat.v))
    IN  CASE tech = "Matrix" ->
                IF self.w.tag = "Other"
                THEN fail(not_supported("w must be in {8,16,32}"))
                ELSE [res |-> Ok, v |-> TechInner("Matrix", mat, 0, NULL, NULL),
                      ev |-> <<>>]
          [] tech = "BitMatrix" ->
                IF coding_method = "ReedSolVand"
                THEN fail(not_supported("BitMatrix is not supported for ReedSolVand"))
                ELSE BitMatrix(mat_to_bitmat(self, mat), check_packet_size(self))
          [] tech = "Schedule" ->
                IF coding_method = "ReedSolVand"
                THEN fail(not_supported("Schedule is not supported for ReedSolVand"))
                ELSE Schedule(mat_to_bitmat(self, mat))
          [] tech = "ScheduleCache" ->
                IF coding_method = "ReedSolVand"
                THEN fail(not_supported("ScheduleCache is not supported for ReedSolVand"))
                ELSE IF self.m[1] # 2
                THEN fail(not_supported("ScheduleCache is only supported for m = 2"))
                ELSE ScheduleCache(mat_to_bitmat(self, mat))

\* the end of build once the matrix mat ([res, v]) of the coding method is
\* made: the technique, and the instance
build_instance(self, mat) ==
    LET fail(e, ev) == [res |-> e, ec |-> None, ev |-> ev]
        Instance(t) ==
            IF t.res # Ok THEN fail(t.res, <<<<"alloc", "matrix">>>> \o t.ev)
            ELSE [res |-> Ok,
                  ec  |-> Some([tech |-> t.v, k |-> self.k[1], m |-> self.m[1],
                                w |-> self.w, method |-> self.coding_method[1]]),
                  ev  |-> <<<<"alloc", "matrix">>>> \o t.ev]
    IN  IF mat.res # Ok THEN fail(mat.res, <<>>)
        ELSE Instance(build_tech(self, self.tech[1], self.coding_method[1], mat.v))

\* ErasureCodeBuilder::build: [res, ec, ev], ec = Some(instance) when
\* res = Ok, ev the allocations and releases of native structures
build(self, profile) ==
    LET fail(e) == [res |-> e, ec |-> None, ev |-> <<>>]
    IN  IF self.k = None THEN fail(invalid_arguments("k is required"))
        ELSE IF self.m = None THEN fail(invalid_arguments("m is required"))
        ELSE IF self.tech = None THEN fail(invalid_arguments("tech is required"))
        ELSE IF self.coding_method = None
        THEN fail(invalid_arguments("coding_method is required"))
        ELSE
        LET k == self.k[1]
            m == self.m[1]
            tech == self.tech[1]
            w == self.w
            coding_method == self.coding_method[1]
            sum == add_i32(k, m, profile)
            lim == shl_i32(to_u8(w), profile)
        IN  IF k <= 0 THEN fail(invalid_arguments("k must be greater than 0"))
            ELSE IF m <= 0 THEN fail(invalid_arguments("m must be greater than 0"))
            ELSE IF sum.panic THEN fail(Panic("attempt to add with overflow"))
            ELSE IF lim.panic THEN fail(Panic("attempt to shift left with overflow"))
            ELSE IF sum.v > lim.v
            THEN fail(invalid_arguments("k + m must be less or equal than 2^w"))
            ELSE IF coding_method \notin {"ReedSolVand", "Cauchy"}
            THEN fail(Panic("not implemented: Liber8tion, BlaumRoth are not implemented yet"))
            ELSE build_instance(self, IF coding_method = "ReedSolVand"
                                      THEN reed_sol_vand_mat(self) ELSE cauchy_mat(self))

\* the drop of an ErasureCode whose Schedule keeps its bit-matrix
drop_bitmatrix_kept(self) ==
    CASE self.tech.kind = "Matrix" -> <<<<"free", "matrix">>>>
      [] self.tech.kind = "BitMatrix" -> <<<<"free", "bitmatrix">>>>
      [] self.tech.kind = "Schedule" -> <<<<"free", "schedule">>>>
      [] self.tech.kind = "ScheduleCache" ->
            <<<<"free", "schedule">>, <<"free", "cache">>>>

\* the drop of an ErasureCode, that is of its TechInner: the releases of
\* Drop for Matrix, Schedule (whose field bmat is dropped after it) and
\* ScheduleCache, in their order
drop(self) ==
    CASE self.tech.kind = "Matrix" -> <<<<"free", "matrix">>>>
      [] self.tech.kind = "BitMatrix" -> <<<<"free", "bitmatrix">>>>
      [] self.tech.kind = "Schedule" ->
            <<<<"free", "schedule">>, <<"free", "bitmatrix">>>>
      [] self.tech.kind = "ScheduleCache" ->
            <<<<"free", "schedule">>, <<"free", "cache">>>>

(***************************************************************************)
(* ErasureCode.  data and code are the caller's buffers: sequences of      *)
(* byte sequences.                                                         *)
(***************************************************************************)
\* ErasureCode::tech
tech(self) == self.tech.kind

\* ErasureCode::w
ErasureCode_w(self) == self.w

\* CheckBufferLoop taking the alignment unit for the size of a C int
RECURSIVE CheckBufferLoop_int_unit(_, _, _)
CheckBufferLoop_int_unit(bufs, len, i) ==
    IF i > Len(bufs) THEN Ok
    ELSE IF Len(bufs[i]) % 4 # 0 THEN NotAligned(Len(bufs[i]))
    ELSE IF Len(bufs[i]) # len
    THEN invalid_arguments("source and parity must be the same length")
    ELSE CheckBufferLoop_int_unit(bufs, len, i + 1)

\* CheckBufferLoop reporting a buffer of another length as misaligned
RECURSIVE CheckBufferLoop_one_error(_, _, _)
CheckBufferLoop_one_error(bufs, len, i) ==
    IF i > Len(bufs) THEN Ok
    ELSE IF Len(bufs[i]) % MACHINE_LONG_SIZE # 0 \/ Len(bufs[i]) # len
    THEN NotAligned(Len(bufs[i]))
    ELSE CheckBufferLoop_one_error(bufs, len, i + 1)

\* the loop over the buffers of check_encode_buffer / check_decode_buffer:
\* the first buffer that is misaligned or of another length than len decides
RECURSIVE CheckBufferLoop(_, _, _)
CheckBufferLoop(bufs, len, i) ==
    IF i > Len(bufs) THEN Ok
    ELSE IF Len(bufs[i]) % MACHINE_LONG_SIZE # 0 THEN NotAligned(Len(bufs[i]))
    ELSE IF Len(bufs[i]) # len
    THEN invalid_arguments("source and parity must be the same length")
    ELSE CheckBufferLoop(bufs, len, i + 1)

check_encode_buffer(self, source, parity) ==
    IF Len(source) # self.k THEN invalid_arguments("source must have k elements")
    ELSE IF Len(parity) # self.m THEN invalid_arguments("parity must have m elements")
    ELSE LET len == Len(source[1])
             s   == CheckBufferLoop(source, len, 1)
         IN  IF s # Ok THEN s ELSE CheckBufferLoop(parity, len, 1)

check_decode_buffer(self, source, parity) ==
    IF Len(source) # self.k THEN invalid_arguments("source must have k elements")
    ELSE IF Len(parity) # self.m THEN invalid_arguments("parity must have m elements")
    ELSE LET len == Len(source[1])
             s   == CheckBufferLoop(source, len, 1)
         IN  IF s # Ok THEN s ELSE CheckBufferLoop(parity, len, 1)

\* PacketOutcome taking every return of the routine for a success
PacketOutcome_ret_ignored(self, r, data, code, len, env) ==
    IF r.abort
    THEN [res |-> Abort, ret |-> 0, data |-> data, code |-> code, after |-> env.after]
    ELSE IF r.wild /\ env.crash
    THEN [res |-> Crash, ret |-> 0, data |-> data, code |-> code, after |-> env.after]
    ELSE LET blk == Unflatten(r.mem, data \o code)
         IN  [res  |-> Ok,
              ret  |-> IF "ret" \in DOMAIN r THEN r.ret ELSE 0,
              data |-> SubSeq(blk, 1, self.k),
              code |-> SubSeq(blk, self.k + 1, self.k + self.m),
              after |-> SubSeq(r.mem, Len(r.mem) - Len(env.after) + 1, Len(r.mem))]

\* what a call of a packet routine made of the buffers: [res, ret, data,
\* code, after], ret the value the routine returned (0 when it did not
\* return), after the words that follow the stripe
PacketOutcome(self, r, data, code, len, env) ==
    IF r.abort
    THEN [res |-> Abort, ret |-> 0, data |-> data, code |-> code, after |-> env.after]
    ELSE IF r.wild /\ env.crash
    THEN [res |-> Crash, ret |-> 0, data |-> data, code |-> code, after |-> env.after]
    ELSE LET blk == Unflatten(r.mem, data \o code)
         IN  [res  |-> IF "ret" \in DOMAIN r /\ r.ret # 0
                       THEN other("Failed to decode") ELSE Ok,
              ret  |-> IF "ret" \in DOMAIN r THEN r.ret ELSE 0,
              data |-> SubSeq(blk, 1, self.k),
              code |-> SubSeq(blk, self.k + 1, self.k + self.m),
              after |-> SubSeq(r.mem, Len(r.mem) - Len(env.after) + 1, Len(r.mem))]

\* the body of encode after the check: the call of the technique's routine
EncodeDispatch(self, data, code, env) ==
    LET len == Len(data[1])
        k   == self.k
        m   == self.m
        w   == as_cint(self.w)
        t   == self.tech
        Encoded(blk) ==
            [res |-> Ok, data |-> SubSeq(blk, 1, k), code |-> SubSeq(blk, k + 1, k + m),
             after |-> env.after]
    IN  CASE t.kind = "Matrix" ->
               Encoded(jerasure_matrix_encode(k, m, w, t.mat, data \o code))
          [] t.kind = "BitMatrix" ->
               PacketOutcome(self,
                   jerasure_bitmatrix_encode(k, m, w, t.mat,
                                             Words(data \o code) \o env.after,
                                             len, t.packet_size, env),
                   data, code, len, env)
          [] t.kind \in {"Schedule", "ScheduleCache"} ->
               PacketOutcome(self,
                   jerasure_schedule_encode(k, m, w, t.inner,
                                            Words(data \o code) \o env.after,
                                            len, t.packet_size, env),
                   data, code, len, env)

\* encode clearing the parity buffers before it checks them
encode_clear_first(self, data, code, env) ==
    LET chk     == check_encode_buffer(self, data, code)
        cleared == [i \in 1..Len(code) |-> [j \in 1..Len(code[i]) |-> 0]]
    IN  IF chk # Ok
        THEN [res |-> chk, data |-> data, code |-> cleared, after |-> env.after]
        ELSE EncodeDispatch(self, data, cleared, env)

\* ErasureCode::encode: [res, data, code, after]
encode(self, data, code, env) ==
    LET chk == check_encode_buffer(self, data, code)
    IN  IF chk # Ok THEN [res |-> chk, data |-> data, code |-> code, after |-> env.after]
        ELSE EncodeDispatch(self, data, code, env)

\* Itertools::sorted: the list in ascending order (insertion of each
\* element after the elements not greater than it)
RECURSIVE Insert(_, _)
Insert(x, l) ==
    IF l = <<>> THEN <<x>>
    ELSE IF x < Head(l) THEN <<x>> \o l
    ELSE <<Head(l)>> \o Insert(x, Tail(l))

\* sorted left out of the chain
sorted_skipped(l) == l

RECURSIVE sorted(_)
sorted(l) == IF l = <<>> THEN <<>> ELSE Insert(Head(l), sorted(Tail(l)))

\* dedup left out of the chain
dedup_skipped(l) == l

\* Itertools::dedup: consecutive equal elements collapse to one
RECURSIVE dedup(_)
dedup(l) ==
    IF Len(l) <= 1 THEN l
    ELSE IF l[1] = l[2] THEN dedup(Tail(l))
    ELSE <<l[1]>> \o dedup(Tail(l))

\* try_collect checking the upper bound of an index only
RECURSIVE try_collect_upper_only(_, _, _)
try_collect_upper_only(self, l, acc) ==
    IF l = <<>> THEN [res |-> Ok, v |-> acc \o <<-1>>]
    ELSE IF Head(l) < self.k + self.m
    THEN try_collect_upper_only(self, Tail(l), acc \o <<Head(l)>>)
    ELSE [res |-> invalid_arguments("erased index out of bounds"), v |-> <<>>]

\* try_collect over the checked indices followed by Ok(-1): the first index
\* out of range ends the collection with its error
RECURSIVE try_collect(_, _, _)
try_collect(self, l, acc) ==
    IF l = <<>> THEN [res |-> Ok, v |-> acc \o <<-1>>]
    ELSE IF 0 <= Head(l) /\ Head(l) < self.k + self.m
    THEN try_collect(self, Tail(l), acc \o <<Head(l)>>)
    ELSE [res |-> invalid_arguments("erased index out of bounds"), v |-> <<>>]

\* the first statement of decode: [res, v], v the list handed to jerasure
sanitize(self, erased) == try_collect(self, dedup(sorted(erased)), <<>>)

\* the body of decode after the checks: the call of the technique's
\* routine with the sanitized list erased
DecodeDispatch(self, data, code, erased, env) ==
    LET len == Len(data[1])
        k   == self.k
        m   == self.m
        w   == as_cint(self.w)
        t   == self.tech
        row_k_ones == IF self.method = "ReedSolVand" THEN 1 ELSE 0
        mem == Words(data \o code) \o env.after
        Decoded(r) ==
            IF r.ret # 0
            THEN [res |-> other("Failed to decode"), ret |-> r.ret,
                  data |-> data, code |-> code, after |-> env.after]
            ELSE [res |-> Ok, ret |-> r.ret, data |-> SubSeq(r.blk, 1, k),
                  code |-> SubSeq(r.blk, k + 1, k + m), after |-> env.after]
    IN  CASE t.kind = "Matrix" ->
               Decoded(jerasure_matrix_decode(k, m, w, t.mat, row_k_ones,
                                              erased, data \o code))
          [] t.kind = "BitMatrix" ->
               PacketOutcome(self,
                   jerasure_bitmatrix_decode(k, m, w, t.mat, row_k_ones, erased,
                                             mem, len, t.packet_size, env),
                   data, code, len, env)
          [] t.kind = "Schedule" ->
               PacketOutcome(self,
                   jerasure_schedule_decode_lazy(k, m, w, t.mat, erased,
                                                 mem, len, t.packet_size, env),
                   data, code, len, env)
          [] t.kind = "ScheduleCache" ->
               PacketOutcome(self,
                   jerasure_schedule_decode_cache(k, m, w, t.cache, erased,
                                                  mem, len, t.packet_size, env),
                   data, code, len, env)

\* the checks of decode with the buffers checked first
DecodeChecks_buffers_first(self, data, code, erased_in) ==
    LET erased == sanitize(self, erased_in)
        buffers == check_decode_buffer(self, data, code)
    IN  IF buffers # Ok THEN [res |-> buffers, v |-> <<>>]
        ELSE IF erased.res # Ok THEN erased
        ELSE IF Len(erased.v) - 1 > self.m
        THEN [res |-> too_many_erasure(Len(erased.v) - 1, self.m), v |-> <<>>]
        ELSE [res |-> Ok, v |-> erased.v]

\* the checks decode starts with, in its order: the erased list is
\* sanitized, counted, and then the buffers are checked: [res, v]
DecodeChecks(self, data, code, erased_in) ==
    LET erased == sanitize(self, erased_in)
    IN  IF erased.res # Ok THEN erased
        ELSE IF Len(erased.v) - 1 > self.m
        THEN [res |-> too_many_erasure(Len(erased.v) - 1, self.m), v |-> <<>>]
        ELSE [res |-> check_decode_buffer(self, data, code), v |-> erased.v]

\* ErasureCode::decode: [res, ret, data, code, after], ret the value the
\* routine of the C library returned (0 when none was called)
decode(self, data, code, erased_in, env) ==
    LET chk == DecodeChecks(self, data, code, erased_in)
    IN  IF chk.res # Ok
        THEN [res |-> chk.res, ret |-> 0, data |-> data, code |-> code,
              after |-> env.after]
        ELSE DecodeDispatch(self, data, code, chk.v, env)

(***************************************************************************)
(* GaloisField (galois.rs).  A handle is the record [w]; fields is the set *)
(* of the widths whose process-wide field the C library has set up.        *)
(***************************************************************************)
\* the errors galois.rs returns
InvalidRange(msg) == [kind |-> "InvalidRange", msg |-> msg, a |-> 0, b |-> 0]

InvalidWordSize(n) == [kind |-> "InvalidWordSize", msg |-> "", a |-> n, b |-> 0]

\* galois_init_default_field(w) sets up the field of width w; a
\* galois_region_xor of 16 bytes and more goes through
\* galois_w32_region_multiply, which sets up the field of width 32 when it
\* is not there
\* try_from_word_size rejecting the width 32 too
try_from_word_size_below_32(w, fields) ==
    IF w = 0 \/ w >= 32 THEN [gf |-> None, fields |-> fields]
    ELSE [gf |-> Some([w |-> w]), fields |-> fields \cup {w}]

\* GaloisField::try_from_word_size(w), w a u8: [gf, fields], gf the Option
\* returned
try_from_word_size(w, fields) ==
    IF w = 0 \/ w > 32 THEN [gf |-> None, fields |-> fields]
    ELSE [gf |-> Some([w |-> w]), fields |-> fields \cup {w}]

\* GaloisField::get_w
get_w(self) == self.w

\* GaloisField::add: a ^ b, here of two naturals
gf_add(self, a, b) == BitXor(a, b)

\* region_add xor-ing a into out without copying b there first
region_add_no_copy(self, a, b, out, fields) ==
    LET n == Len(a)
        unchanged(e) == [res |-> e, a |-> a, b |-> b, out |-> out, fields |-> fields]
    IN  IF n # Len(b)
        THEN unchanged(InvalidRange("Input slices must be the same length"))
        ELSE IF n # Len(out)
        THEN unchanged(InvalidRange(
                 "Output slice must be the same length as input slices"))
        ELSE IF n % MACHINE_LONG_SIZE # 0 THEN unchanged(InvalidWordSize(n))
        ELSE [res |-> Ok, a |-> a, b |-> b,
              out |-> galois_region_xor(a, out),
              fields |-> IF n >= 16 THEN fields \cup {32} ELSE fields]

\* GaloisField::region_add(a, b, out): [res, a, b, out, fields], the result
\* and the slices and the fields after the call
region_add(self, a, b, out, fields) ==
    LET n == Len(a)
        unchanged(e) == [res |-> e, a |-> a, b |-> b, out |-> out, fields |-> fields]
    IN  IF n # Len(b)
        THEN unchanged(InvalidRange("Input slices must be the same length"))
        ELSE IF n # Len(out)
        THEN unchanged(InvalidRange(
                 "Output slice must be the same length as input slices"))
        ELSE IF n % MACHINE_LONG_SIZE # 0 THEN unchanged(InvalidWordSize(n))
        ELSE [res |-> Ok, a |-> a, b |-> b,
              \* out.copy_from_slice(b), then a is xor-ed into out
              out |-> galois_region_xor(a, b),
              fields |-> IF n >= 16 THEN fields \cup {32} ELSE fields]

\* GaloisField::region_acc(buf, acc): [res, buf, acc, fields]
region_acc(self, buf, acc, fields) ==
    LET n == Len(acc)
        unchanged(e) == [res |-> e, buf |-> buf, acc |-> acc, fields |-> fields]
    IN  IF n # Len(buf)
        THEN unchanged(InvalidRange(
                 "Output slice must be the same length as input slices"))
        ELSE IF n % MACHINE_LONG_SIZE # 0 THEN unchanged(InvalidWordSize(n))
        ELSE [res |-> Ok, buf |-> galois_region_xor(acc, buf), acc |-> acc,
              fields |-> IF n >= 16 THEN fields \cup {32} ELSE fields]

\* GaloisField::region_multiply(src, multiply_by, add, dest):
\* [res, src, dest, fields]
region_multiply(self, src, multiply_by, add, dest, fields) ==
    LET n == Len(src)
        unchanged(e) == [res |-> e, src |-> src, dest |-> dest, fields |-> fields]
    IN  IF n # Len(dest)
        THEN unchanged(InvalidRange("Input slices must be the same length"))
        ELSE IF n % MACHINE_LONG_SIZE # 0 THEN unchanged(InvalidWordSize(n))
        ELSE IF self.w \notin {8, 16, 32}
        THEN \* unimplemented!("only support w=8, 16, 32")
             unchanged(Panic("only support w=8, 16, 32"))
        ELSE [res |-> Ok, src |-> src,
              dest |-> IF self.w = 32
                       THEN galois_w32_region_multiply(src, multiply_by, dest, add)
                       ELSE galois_region_multiply(src, multiply_by, self.w, dest, add),
              fields |-> fields \cup {self.w}]

(***************************************************************************)
(* The state machine: a caller configures a builder, builds an instance,   *)
(* provides buffers, and calls encode and decode on them.                  *)
(***************************************************************************)
VARIABLES
    builder,    \* the ErasureCodeBuilder
    ec,         \* None, or Some(the ErasureCode built)
    data,       \* the caller's data buffers
    code,       \* the caller's parity buffers
    pre,        \* the buffers at the entry of the last encode or decode
    enc,        \* the buffers at the return of the last encode that was Ok
    erasedSet,  \* the devices overwritten since that encode
    call,       \* the last call: operation, arguments, environment, and the
                \* value the routine of the C library returned to decode
    res,        \* its result
    phase,      \* where the caller is
    callers,    \* the callers that share the instance: their buffers, where
                \* each of them is, and the result of its last call
    gal,        \* the user of galois.rs: the fields set up, the handle, the
                \* last call with its slices before and after, its result
    heap        \* the allocations and releases of native structures so far

vars ==
    <<builder, ec, data, code, pre, enc, erasedSet, call, res, phase, callers, gal,
      heap>>

NoBuffers == [data |-> <<>>, code |-> <<>>]

\* the configurations of the encode/decode runs: the matrix technique over
\* GF(2^8) with both methods, the packet techniques over GF(2^2) with
\* packets of 8 bytes
CodecConfigs ==
    { [k |-> k, m |-> m, w |-> W8, packet_size |-> 8, tech |-> "Matrix", method |-> c] :
          k \in 1..MaxK, m \in 1..MaxM, c \in {"ReedSolVand", "Cauchy"} }
    \cup
    { [k |-> k, m |-> m, w |-> Other(2), packet_size |-> 8, tech |-> t, method |-> "Cauchy"] :
          k \in 1..MaxK, m \in 1..MaxM, t \in {"BitMatrix", "Schedule", "ScheduleCache"} }

\* the lengths of the buffers the callers provide
BlockLens == {0, 8, 12, 16}

Seeds == {1, 2}

\* the bytes of buffer d for a seed
Block(seed, d, len) == [j \in 1..len |-> (seed * 7 + d * 16 + j) % 256]

\* the bytes an erased buffer is overwritten with
Junk(len) == [j \in 1..len |-> (j * 11 + 5) % 256]

\* the shapes of the buffers: [dl, cl] the lengths of the data and the parity
\* buffers.  One common length with the counts k and m; one of the counts
\* one off; or the right counts with the first or the last data or parity
\* buffer of another length than the others.
Shapes(k, m) ==
    { [dl |-> [i \in 1..k |-> l], cl |-> [i \in 1..m |-> l]] : l \in BlockLens }
    \cup
    { [dl |-> [i \in 1..c[1] |-> l], cl |-> [i \in 1..c[2] |-> l]] :
          c \in {<<k - 1, m>>, <<k + 1, m>>, <<k, m - 1>>, <<k, m + 1>>},
          l \in {16} }
    \cup
    { [dl |-> [i \in 1..k |-> IF i = j THEN l2 ELSE 16],
       cl |-> [i \in 1..m |-> IF k + i = j THEN l2 ELSE 16]] :
          j \in {1, k, k + 1, k + m}, l2 \in {8, 12} }

\* the shapes encode and decode accept
ValidShape(k, m, sh) ==
    /\ Len(sh.dl) = k
    /\ Len(sh.cl) = m
    /\ \A i \in 1..k : sh.dl[i] = sh.dl[1] /\ sh.dl[i] % MACHINE_LONG_SIZE = 0
    /\ \A i \in 1..m : sh.cl[i] = sh.dl[1]

\* the indices of an erased list
Indices(l) == {l[i] : i \in DOMAIN l}

\* the erased lists given to decode of n blocks: lists of up to MaxM + 1
\* indices, in any order and with repetitions, of the first two and the last
\* block and of the indices next to the range
ErasedLists(n) == UNION { [1..len -> {-1, 0, 1, n - 1, n}] : len \in 0..(MaxM + 1) }

\* the lists that name the blocks of E, each once, in any order
DeviceLists(E) == { l \in [1..Cardinality(E) -> E] : Indices(l) = E }

\* the environments that can make a difference to a call.  The layout of
\* the buffers, the faults and (for the bit-matrix routines) the assertions
\* matter when a packet routine is given a size that is no multiple of
\* w * packet_size; the uninitialized words matter when the schedule cache
\* is given an empty list.
DefaultEnv ==
    [lay |-> "separate", g |-> 255, ndebug |-> FALSE, crash |-> FALSE, u1 |-> 0, u2 |-> 0,
     after |-> <<>>]

OverflowEnvs(kind) ==
    { [DefaultEnv EXCEPT !.lay = l, !.crash = c, !.ndebug = nd] :
          l \in {"separate", "data_first", "code_first"}, c \in BOOLEAN,
          nd \in IF kind = "BitMatrix" THEN BOOLEAN ELSE {FALSE} }

UninitEnvs ==
    { [DefaultEnv EXCEPT !.crash = c, !.u1 = a, !.u2 = b] :
          c \in BOOLEAN, a \in {-1, 0}, b \in {-1, 0} }

\* whether a packet routine called with buffers of len bytes stays in them
InBounds(self, len) ==
    IF self.tech.kind = "Matrix" THEN TRUE
    ELSE len % (as_cint(self.w) * self.tech.packet_size) = 0

\* checked is the result of the checks that precede the call of jerasure
EnvsFor(self, bufs, erased, checked) ==
    {DefaultEnv}
    \cup (IF checked = Ok /\ ~InBounds(self, Len(bufs[1]))
          THEN OverflowEnvs(self.tech.kind) ELSE {})
    \cup (IF checked = Ok /\ self.tech.kind = "ScheduleCache" /\ erased = <<>>
          THEN UninitEnvs ELSE {})

\* the callers that share an instance, and a caller that has done nothing:
\* own holds the buffers as the caller filled them
Callers == {1, 2}

Idle ==
    [phase |-> "idle", data |-> <<>>, code |-> <<>>, own |-> NoBuffers, res |-> NoResult]

\* the user of galois.rs before its first call
NoGalois ==
    [fields |-> {}, gf |-> None, op |-> "none", w |-> 0,
     a |-> <<>>, b |-> <<>>, out |-> <<>>,
     pre |-> [a |-> <<>>, b |-> <<>>, out |-> <<>>], res |-> NoResult]

NoCall ==
    [op |-> "none", erased |-> <<>>, env |-> DefaultEnv, from |-> "new",
     profile |-> "release", ret |-> 0]

Init ==
    /\ builder = ErasureCodeBuilder_new
    /\ ec = None
    /\ data = <<>>
    /\ code = <<>>
    /\ pre = NoBuffers
    /\ enc = NoBuffers
    /\ erasedSet = {}
    /\ call = NoCall
    /\ res = NoResult
    /\ phase = "new"
    /\ callers = [c \in Callers |-> Idle]
    /\ gal = NoGalois
    /\ heap = <<>>

\* the setters, one at a time
SetK ==
    /\ phase = "new"
    /\ \E v \in {-1, I32_MAX} \cup (1..MaxK) : builder' = Builder_k(builder, v)
    /\ UNCHANGED <<ec, data, code, pre, enc, erasedSet, call, res, phase, callers, gal, heap>>

SetM ==
    /\ phase = "new"
    /\ \E v \in {-1} \cup (1..(MaxM + 1)) : builder' = Builder_m(builder, v)
    /\ UNCHANGED <<ec, data, code, pre, enc, erasedSet, call, res, phase, callers, gal, heap>>

SetW ==
    /\ phase = "new"
    /\ \E v \in {W8, W32, Other(2), Other(31)} : builder' = Builder_w(builder, v)
    /\ UNCHANGED <<ec, data, code, pre, enc, erasedSet, call, res, phase, callers, gal, heap>>

SetPacketSize ==
    /\ phase = "new"
    /\ \E v \in {-8, 8, 12} : builder' = Builder_packet_size(builder, v)
    /\ UNCHANGED <<ec, data, code, pre, enc, erasedSet, call, res, phase, callers, gal, heap>>

SetTech ==
    /\ phase = "new"
    /\ \E v \in {"Matrix", "BitMatrix", "Schedule", "ScheduleCache"} :
          builder' = Builder_tech(builder, v)
    /\ UNCHANGED <<ec, data, code, pre, enc, erasedSet, call, res, phase, callers, gal, heap>>

SetCodingMethod ==
    /\ phase = "new"
    /\ \E v \in {"ReedSolVand", "Cauchy", "Liberation", "Liber8tion", "BlaumRoth"} :
          builder' = Builder_coding_method(builder, v)
    /\ UNCHANGED <<ec, data, code, pre, enc, erasedSet, call, res, phase, callers, gal, heap>>

\* ErasureCodeBuilder::new().k(..).m(..).w(..).packet_size(..).tech(..)
\* .coding_method(..), the chain the callers of encode and decode write
Configure ==
    /\ phase = "new"
    /\ builder = ErasureCodeBuilder_new
    /\ \E c \in CodecConfigs :
          builder' = Builder_coding_method(Builder_tech(Builder_packet_size(
                         Builder_w(Builder_m(Builder_k(builder, c.k), c.m), c.w),
                         c.packet_size), c.tech), c.method)
    /\ phase' = "configured"
    /\ UNCHANGED <<ec, data, code, pre, enc, erasedSet, call, res, callers, gal, heap>>

\* what build can return.  With k + m beyond the range of an int and the
\* overflow checks off, the C library is called with a k and an m whose sum
\* it cannot compute: it fails to make the matrix, or the process ends in it.
BuildOutcomes(self, profile) ==
    LET Outcomes(r) ==
            IF /\ r.res.kind = "Other"
               /\ self.k[1] > I32_MAX - self.m[1]
            THEN {r, [res |-> Crash, ec |-> None, ev |-> <<>>]}
            ELSE {r}
    IN  Outcomes(build(self, profile))

\* builder.build()
Build ==
    /\ phase \in {"new", "configured"}
    /\ \E profile \in {"debug", "release"} :
          \E r \in BuildOutcomes(builder, profile) :
              /\ ec' = r.ec
              /\ res' = r.res
              /\ call' = [NoCall EXCEPT !.op = "build", !.from = phase,
                                        !.profile = profile]
              /\ phase' = IF r.res = Ok THEN "built" ELSE "failed"
              /\ heap' = r.ev
    /\ UNCHANGED <<builder, data, code, pre, enc, erasedSet, callers, gal>>

\* the caller provides buffers
Load ==
    /\ phase = "built"
    /\ \E sh \in Shapes(ec[1].k, ec[1].m), seed \in Seeds :
          /\ IF ValidShape(ec[1].k, ec[1].m, sh) THEN InBounds(ec[1], sh.dl[1]) \/ seed = 1
             ELSE seed = 1
          /\ data' = [i \in 1..Len(sh.dl) |-> Block(seed, i - 1, sh.dl[i])]
          /\ code' = [i \in 1..Len(sh.cl) |-> Block(seed, Len(sh.dl) + i - 1, sh.cl[i])]
    /\ phase' = "loaded"
    /\ UNCHANGED <<builder, ec, pre, enc, erasedSet, call, res, callers, gal, heap>>

\* ec.encode(&data, &mut code).  A run goes on to lose and repair buffers
\* after an encode that returned Ok and stayed in its buffers.
Encode ==
    /\ phase = "loaded"
    /\ \E env \in EnvsFor(ec[1], data, <<0>>, check_encode_buffer(ec[1], data, code)) :
          \E r \in {encode(ec[1], data, code, env)} :
              /\ data' = r.data
              /\ code' = r.code
              /\ res' = r.res
              /\ enc' = IF r.res = Ok THEN [data |-> r.data, code |-> r.code] ELSE enc
              /\ call' = [NoCall EXCEPT !.op = "encode", !.from = phase, !.env = env]
              /\ phase' = IF r.res = Ok /\ InBounds(ec[1], Len(data[1]))
                          THEN "encoded" ELSE "done"
    /\ pre' = [data |-> data, code |-> code]
    /\ UNCHANGED <<builder, ec, erasedSet, callers, gal, heap>>

\* at most m of the encoded buffers are lost: overwritten with other bytes
Erase ==
    /\ phase = "encoded"
    /\ \E E \in SUBSET (0..(ec[1].k + ec[1].m - 1)) :
          /\ Cardinality(E) <= ec[1].m
          /\ erasedSet' = E
          /\ data' = [i \in 1..Len(data) |->
                         IF (i - 1) \in E THEN Junk(Len(data[i])) ELSE data[i]]
          /\ code' = [i \in 1..Len(code) |->
                         IF (ec[1].k + i - 1) \in E THEN Junk(Len(code[i])) ELSE code[i]]
    /\ phase' = "erased"
    /\ UNCHANGED <<builder, ec, pre, enc, call, res, callers, gal, heap>>

\* ec.decode(&mut data, &mut code, &erased)
Decode ==
    /\ phase \in {"loaded", "erased"}
    /\ \E erased \in IF phase = "loaded" THEN ErasedLists(ec[1].k + ec[1].m)
                     ELSE DeviceLists(erasedSet) :
          \E env \in EnvsFor(ec[1], data, erased,
                             DecodeChecks(ec[1], data, code, erased).res) :
              \E r \in {decode(ec[1], data, code, erased, env)} :
                  /\ data' = r.data
                  /\ code' = r.code
                  /\ res' = r.res
                  /\ call' = [NoCall EXCEPT !.op = "decode", !.from = phase,
                                            !.env = env, !.erased = erased,
                                            !.ret = r.ret]
    /\ pre' = [data |-> data, code |-> code]
    /\ phase' = "decoded"
    /\ UNCHANGED <<builder, ec, enc, erasedSet, callers, gal, heap>>

\* the life of a codec
Next == Configure \/ Build \/ Load \/ Encode \/ Erase \/ Decode

Spec == Init /\ [][Next]_vars

\* the builder alone, one setter at a time, with every argument
NextBuild == SetK \/ SetM \/ SetW \/ SetPacketSize \/ SetTech \/ SetCodingMethod \/ Build

SpecBuild == Init /\ [][NextBuild]_vars

(***************************************************************************)
(* Callers that share one built instance.  Each has its own buffers, k     *)
(* data and m parity blocks of one length; a call runs from its entry to   *)
(* its return, and the calls of the callers come in any order.  The        *)
(* buffers of a caller are one contiguous stripe (data, then parity), and  *)
(* the stripe of caller 2 may follow the stripe of caller 1 in memory.     *)
(***************************************************************************)
\* the list a caller gives decode
CallerErased == <<0>>

\* the buffers caller c fills for the instance self
CallerBuffers(c, self, len) ==
    [data |-> [i \in 1..self.k |-> Block(c, i - 1, len)],
     code |-> [i \in 1..self.m |-> Block(c, self.k + i - 1, len)]]

\* the environment of a call on a stripe that nothing follows
StripeEnv == [DefaultEnv EXCEPT !.lay = "data_first"]

\* the environments of a call of caller c
CallerEnvs(c, self) ==
    { [StripeEnv EXCEPT !.ndebug = nd, !.after = a] :
          nd \in IF self.tech.kind = "BitMatrix" THEN BOOLEAN ELSE {FALSE},
          a \in {<<>>} \cup (IF c = 1 /\ callers[2].phase # "idle"
                              THEN {Words(callers[2].data \o callers[2].code)}
                              ELSE {}) }

\* the callers after a call of caller c returned r and left c in phase ph:
\* the buffers of c are what the call made of them, and the buffers that
\* follow its stripe are what the call left in env.after
AfterCall(c, r, env, ph) ==
    [d \in Callers |->
        IF d = c
        THEN [callers[c] EXCEPT !.phase = ph, !.data = r.data, !.code = r.code,
                                !.res = r.res]
        ELSE IF env.after # <<>>
        THEN [callers[d] EXCEPT
                 !.data = SubSeq(Unflatten(r.after, callers[d].data \o callers[d].code),
                                 1, Len(callers[d].data)),
                 !.code = SubSeq(Unflatten(r.after, callers[d].data \o callers[d].code),
                                 Len(callers[d].data) + 1,
                                 Len(callers[d].data) + Len(callers[d].code))]
        ELSE callers[d]]

\* a caller provides its buffers
CallerLoad ==
    /\ phase = "built"
    /\ \E c \in Callers, len \in {8, 16} :
          /\ callers[c].phase = "idle"
          /\ callers' = [callers EXCEPT ![c] =
                 [phase |-> "loaded",
                  data  |-> CallerBuffers(c, ec[1], len).data,
                  code  |-> CallerBuffers(c, ec[1], len).code,
                  own   |-> CallerBuffers(c, ec[1], len),
                  res   |-> NoResult]]
    /\ UNCHANGED <<builder, ec, data, code, pre, enc, erasedSet, call, res, phase, gal, heap>>

\* a caller calls ec.encode on its buffers; the process is over when the
\* call ends it
CallerEncode ==
    /\ phase = "built"
    /\ \E c \in Callers :
          /\ callers[c].phase = "loaded"
          /\ \E env \in CallerEnvs(c, ec[1]) :
                \E r \in {encode(ec[1], callers[c].data, callers[c].code, env)} :
                    /\ callers' = AfterCall(c, r, env, "encoded")
                    /\ phase' = IF r.res = Ok THEN phase ELSE "ended"
    /\ UNCHANGED <<builder, ec, data, code, pre, enc, erasedSet, call, res, gal, heap>>

\* a caller calls ec.decode on its buffers
CallerDecode ==
    /\ phase = "built"
    /\ \E c \in Callers :
          /\ callers[c].phase = "encoded"
          /\ \E env \in CallerEnvs(c, ec[1]) :
                \E r \in {decode(ec[1], callers[c].data, callers[c].code,
                                  CallerErased, env)} :
                    /\ callers' = AfterCall(c, r, env, "decoded")
                    /\ phase' = IF r.res = Ok THEN phase ELSE "ended"
    /\ UNCHANGED <<builder, ec, data, code, pre, enc, erasedSet, call, res, gal, heap>>

\* the instance goes out of scope
Drop ==
    /\ phase = "built"
    /\ heap' = heap \o drop(ec[1])
    /\ phase' = "dropped"
    /\ UNCHANGED <<builder, ec, data, code, pre, enc, erasedSet, call, res, callers,
                   gal>>

NextShared ==
    Configure \/ Build \/ CallerLoad \/ CallerEncode \/ CallerDecode \/ Drop

SpecShared == Init /\ [][NextShared]_vars

(***************************************************************************)
(* The user of galois.rs: handles are made for widths, and the region      *)
(* operations are called on a handle with slices of bytes.                 *)
(***************************************************************************)
\* the slices given to the region operations
GfSlices == { Block(seed, seed, len) : seed \in Seeds, len \in {0, 8, 12, 16} }

\* GaloisField::try_from_word_size(w)
TryFromWordSize ==
    /\ \E w \in {0, 8, 12, 32, 33, 255} :
          \E r \in {try_from_word_size(w, gal.fields)} :
              gal' = [NoGalois EXCEPT !.op = "try_from_word_size", !.w = w,
                                      !.gf = r.gf, !.fields = r.fields]
    /\ UNCHANGED <<builder, ec, data, code, pre, enc, erasedSet, call, res, phase,
                   callers, heap>>

\* gf.region_add(&a, &b, &mut out)
RegionAdd ==
    /\ gal.gf # None
    /\ \E a \in GfSlices, b \in GfSlices, out \in GfSlices :
          \E r \in {region_add(gal.gf[1], a, b, out, gal.fields)} :
              gal' = [gal EXCEPT !.op = "region_add", !.fields = r.fields,
                                 !.a = r.a, !.b = r.b, !.out = r.out,
                                 !.pre = [a |-> a, b |-> b, out |-> out],
                                 !.res = r.res]
    /\ UNCHANGED <<builder, ec, data, code, pre, enc, erasedSet, call, res, phase,
                   callers, heap>>

\* gf.region_acc(&mut buf, &acc): buf is the slice out, acc the slice a
RegionAcc ==
    /\ gal.gf # None
    /\ \E buf \in GfSlices, acc \in GfSlices :
          \E r \in {region_acc(gal.gf[1], buf, acc, gal.fields)} :
              gal' = [gal EXCEPT !.op = "region_acc", !.fields = r.fields,
                                 !.a = r.acc, !.b = <<>>, !.out = r.buf,
                                 !.pre = [a |-> acc, b |-> <<>>, out |-> buf],
                                 !.res = r.res]
    /\ UNCHANGED <<builder, ec, data, code, pre, enc, erasedSet, call, res, phase,
                   callers, heap>>

\* gf.region_multiply(&src, multiply_by, add, &mut dest): src is the slice
\* a, dest the slice out, the scalars go to b; the slice of 16 bytes is the
\* source of test_w8_region_mult
RegionMultiply ==
    /\ gal.gf # None
    /\ \E src \in {Block(1, 1, len) : len \in {0, 8, 12}} \cup
                   {<<196, 250, 135, 238, 154, 87, 205, 86,
                      226, 194, 234, 17, 204, 89, 132, 38>>},
          dest \in {Block(2, 2, len) : len \in {8, 12, 16}},
          multiply_by \in IF gal.gf[1].w = 32 THEN {0, 1} ELSE {0, 2, 238},
          add \in {0, 80} :
          \E r \in {region_multiply(gal.gf[1], src, multiply_by, add, dest,
                                    gal.fields)} :
              gal' = [gal EXCEPT !.op = "region_multiply", !.fields = r.fields,
                                 !.a = r.src, !.b = <<multiply_by, add>>,
                                 !.out = r.dest,
                                 !.pre = [a |-> src, b |-> <<multiply_by, add>>,
                                          out |-> dest],
                                 !.res = r.res]
    /\ UNCHANGED <<builder, ec, data, code, pre, enc, erasedSet, call, res, phase,
                   callers, heap>>

NextGalois == TryFromWordSize \/ RegionAdd \/ RegionAcc \/ RegionMultiply

SpecGalois == Init /\ [][NextGalois]_vars

(***************************************************************************)
(* The properties of build, encode and decode.                             *)
(***************************************************************************)
\* every index of the list is the index of a block of the instance
AllInRange(l) == \A i \in DOMAIN l : 0 <= l[i] /\ l[i] < ec[1].k + ec[1].m

\* a list decode's checks of the erased list let through
ValidErased(l) == AllInRange(l) /\ Cardinality(Indices(l)) <= ec[1].m

\* the blocks 0..k+m-1 of a pair of buffer lists
Blocks(b) == b.data \o b.code

\* the last call had k data buffers and m parity buffers
RightCounts == Len(pre.data) = ec[1].k /\ Len(pre.code) = ec[1].m

\* the buffers of the last call all had the length L
CommonLen(L) == \A i \in DOMAIN Blocks(pre) : Len(Blocks(pre)[i]) = L

\* the buffers of the last call were aligned and one of them had another
\* length than the first data buffer
AlignedMismatch ==
    /\ RightCounts
    /\ \A i \in DOMAIN Blocks(pre) : Len(Blocks(pre)[i]) % MACHINE_LONG_SIZE = 0
    /\ \E i \in DOMAIN Blocks(pre) : Len(Blocks(pre)[i]) # Len(pre.data[1])

\* the last call returned to its caller
Returned == res.kind \in {"Ok"} \cup ErrorKinds

\* C1: after an encode that returned Ok, overwriting the blocks of a set E of
\* at most m indices and decoding with the list E returns Ok and leaves
\* every block with the value it had after the encode
C1_RoundTrip ==
    (/\ phase = "decoded"
     /\ call.from = "erased"
     /\ Indices(call.erased) = erasedSet
     /\ Len(call.erased) = Cardinality(erasedSet))
        => (res = Ok /\ data = enc.data /\ code = enc.code)

\* C2: encode changes no byte of a data buffer, whatever it returns
C2_EncodeKeepsData ==
    (call.op = "encode" /\ phase \in {"encoded", "done"} /\ Returned)
        => data = pre.data

\* C3: when decode returns Ok every block that is not in the erased list is
\* as it was before the call, and every block in the list holds the
\* recovered value (the value after the encode, when the list names the
\* overwritten blocks)
C3_DecodeTouchesErasedOnly ==
    (call.op = "decode" /\ res = Ok) =>
        /\ \A d \in DOMAIN Blocks(pre) :
              (d - 1) \notin Indices(call.erased) =>
                  Blocks([data |-> data, code |-> code])[d] = Blocks(pre)[d]
        /\ (call.from = "erased" /\ Indices(call.erased) = erasedSet) =>
              \A d \in DOMAIN Blocks(enc) :
                  (d - 1) \in Indices(call.erased) =>
                      Blocks([data |-> data, code |-> code])[d] = Blocks(enc)[d]

\* C4: decode returns InvalidArguments whenever the erased list holds an
\* index below 0 or not below k + m, whatever else the list holds and
\* whatever the buffers are
C4_IndexOutOfRange ==
    (call.op = "decode" /\ ~AllInRange(call.erased)) => res.kind = "InvalidArguments"

\* a decode with a list of more than m distinct indices, one of them out of
\* range, and a data buffer missing, was answered InvalidArguments
C4_Witness ==
    /\ call.op = "decode"
    /\ ~AllInRange(call.erased)
    /\ \E i \in DOMAIN call.erased : 0 <= call.erased[i] /\ call.erased[i] < ec[1].k + ec[1].m
    /\ Cardinality(Indices(call.erased)) > ec[1].m
    /\ Len(pre.data) # ec[1].k
    /\ res.kind = "InvalidArguments"

\* C5: with every index in range, decode returns TooManyErasures(c, m)
\* exactly when the number c of distinct indices of the list is above m; the
\* count it reports is c and the limit it reports is m
C5_TooManyErasures ==
    (call.op = "decode" /\ AllInRange(call.erased)) =>
        /\ res.kind = "TooManyErasure" <=> Cardinality(Indices(call.erased)) > ec[1].m
        /\ res.kind = "TooManyErasure" =>
              res = too_many_erasure(Cardinality(Indices(call.erased)), ec[1].m)

\* a list with a repeated index was rejected with the count of its
\* distinct indices
C5_Witness ==
    /\ call.op = "decode"
    /\ AllInRange(call.erased)
    /\ Len(call.erased) > Cardinality(Indices(call.erased))
    /\ res = too_many_erasure(Cardinality(Indices(call.erased)), ec[1].m)

\* C6: with k data buffers and m parity buffers of one length that is no
\* multiple of the machine long size, encode returns NotAligned, and so
\* does decode with a valid erased list
C6_NotAligned ==
    (/\ call.op \in {"encode", "decode"}
     /\ RightCounts
     /\ \E L \in BlockLens : L % MACHINE_LONG_SIZE # 0 /\ CommonLen(L)
     /\ call.op = "decode" => ValidErased(call.erased))
        => res.kind = "NotAligned"

\* a decode of misaligned buffers of one length with a valid list
C6_Witness ==
    /\ call.op = "decode"
    /\ RightCounts
    /\ \E L \in BlockLens : L % MACHINE_LONG_SIZE # 0 /\ CommonLen(L)
    /\ call.erased # <<>>
    /\ ValidErased(call.erased)
    /\ res.kind = "NotAligned"

\* C7, as stated: encode and decode return InvalidArguments when the number
\* of data buffers is not k, when the number of parity buffers is not m, and
\* when the counts are right, every buffer is aligned and a buffer has
\* another length than the first data buffer
C7_Original ==
    (/\ call.op \in {"encode", "decode"}
     /\ ~RightCounts \/ AlignedMismatch)
        => res.kind = "InvalidArguments"

\* C7, amended: the same, for decode unless its erased list holds more
\* than m distinct indices that are all in range (TooManyErasures then)
C7_InvalidBuffers ==
    (/\ call.op \in {"encode", "decode"}
     /\ ~RightCounts \/ AlignedMismatch
     /\ call.op = "decode" =>
            ~(AllInRange(call.erased) /\ Cardinality(Indices(call.erased)) > ec[1].m))
        => res.kind = "InvalidArguments"

\* a decode of aligned buffers, one of another length, with a valid list
C7_Witness ==
    /\ call.op = "decode"
    /\ AlignedMismatch
    /\ call.erased # <<>>
    /\ ValidErased(call.erased)
    /\ res.kind = "InvalidArguments"

\* C8: when encode or decode returns InvalidArguments, NotAligned or
\* TooManyErasures, every data and parity buffer is as it was before the call
C8_ErrorsKeepBuffers ==
    (/\ call.op \in {"encode", "decode"}
     /\ res.kind \in {"InvalidArguments", "NotAligned", "TooManyErasure"})
        => (data = pre.data /\ code = pre.code)

\* an encode refused buffers that hold bytes
C8_Witness ==
    /\ call.op = "encode"
    /\ res.kind \in {"InvalidArguments", "NotAligned"}
    /\ \E i \in DOMAIN pre.code : \E j \in DOMAIN pre.code[i] : pre.code[i][j] # 0
    /\ data = pre.data
    /\ code = pre.code

\* k + m <= 2^w in the integers, for k >= 1, m >= 1 and w >= 1
Fits(k, m, w) ==
    IF w >= 32 THEN TRUE
    ELSE IF w = 31 THEN k - 1 <= I32_MAX - m
    ELSE k <= Pow2(w) - m

\* k, m and w of the builder are valid: k >= 1, m >= 1, k + m <= 2^w
ValidKMW ==
    /\ builder.k # None /\ builder.k[1] >= 1
    /\ builder.m # None /\ builder.m[1] >= 1
    /\ to_u8(builder.w) >= 1
    /\ Fits(builder.k[1], builder.m[1], to_u8(builder.w))

\* C9: with ScheduleCache and Cauchy, build returns NotSupported whenever
\* m is not 2, and an instance when m is 2, k >= 1, k + 2 <= 2^w and the
\* packet size is valid
C9_ScheduleCache ==
    (/\ call.op = "build"
     /\ builder.tech = Some("ScheduleCache")
     /\ builder.coding_method = Some("Cauchy")
     /\ ValidKMW)
        => /\ builder.m[1] # 2 => res.kind = "NotSupported"
           /\ (builder.m[1] = 2 /\ check_packet_size(builder).res = Ok)
                  => (res = Ok /\ ec # None)

\* C10: with ReedSolVand and BitMatrix, Schedule or ScheduleCache, build
\* returns NotSupported for valid k, m and w, whatever the packet size
C10_ReedSolVandPackets ==
    (/\ call.op = "build"
     /\ builder.coding_method = Some("ReedSolVand")
     /\ builder.tech \in {Some("BitMatrix"), Some("Schedule"), Some("ScheduleCache")}
     /\ ValidKMW)
        => res.kind = "NotSupported"

\* the packet size of the builder is valid: set, positive and a multiple of
\* the machine long size
ValidPacketSize ==
    /\ builder.packet_size # None
    /\ builder.packet_size[1] > 0
    /\ builder.packet_size[1] % MACHINE_LONG_SIZE = 0

\* C11: with the coding method Liberation, Liber8tion or BlaumRoth and k, m,
\* w and the technique valid, build returns NotSupported: it does not panic
\* and returns no instance
C11_Unimplemented ==
    (/\ call.op = "build"
     /\ builder.coding_method \in {Some("Liberation"), Some("Liber8tion"), Some("BlaumRoth")}
     /\ builder.tech # None
     /\ builder.tech = Some("Matrix") \/ ValidPacketSize
     /\ ValidKMW)
        => (res.kind = "NotSupported" /\ ec = None)

\* C12: with the technique Matrix and a width in 1..32 other than 8, 16 and
\* 32, build returns NotSupported for ReedSolVand and for Cauchy when
\* k > 0, m > 0 and k + m <= 2^w
C12_MatrixWidth ==
    (/\ call.op = "build"
     /\ builder.tech = Some("Matrix")
     /\ builder.coding_method \in {Some("ReedSolVand"), Some("Cauchy")}
     /\ to_u8(builder.w) \in (1..32) \ {8, 16, 32}
     /\ ValidKMW)
        => res.kind = "NotSupported"

\* C13: build returns InvalidArguments and no instance when k is unset, m
\* is unset, the coding method is unset, k <= 0, m <= 0 or k + m > 2^w
C13_InvalidArguments ==
    (/\ call.op = "build"
     /\ \/ builder.k = None
        \/ builder.m = None
        \/ builder.coding_method = None
        \/ builder.k[1] <= 0
        \/ builder.m[1] <= 0
        \/ ~Fits(builder.k[1], builder.m[1], to_u8(builder.w)))
        => (res.kind = "InvalidArguments" /\ ec = None)

\* C14: with Cauchy and BitMatrix, Schedule or (with m = 2) ScheduleCache,
\* and k, m and w valid, build returns InvalidArguments when the packet
\* size is unset, not positive or no multiple of the machine long size
C14_PacketSize ==
    (/\ call.op = "build"
     /\ builder.coding_method = Some("Cauchy")
     /\ ValidKMW
     /\ \/ builder.tech \in {Some("BitMatrix"), Some("Schedule")}
        \/ builder.tech = Some("ScheduleCache") /\ builder.m[1] = 2
     /\ ~ValidPacketSize)
        => res.kind = "InvalidArguments"

\* C15: when the technique is never set, build with valid k, m and coding
\* method and the default w returns an instance whose technique is Matrix,
\* and the instance of a builder whose w is never set reports w = 8
C15_DefaultTechnique ==
    (/\ call.op = "build"
     /\ builder.tech = None
     /\ builder.w = ErasureCodeBuilder_new.w
     /\ builder.coding_method \in {Some("ReedSolVand"), Some("Cauchy")}
     /\ ValidKMW)
        => /\ res = Ok
           /\ ec # None
           /\ tech(ec[1]) = "Matrix"
           /\ to_u8(ErasureCode_w(ec[1])) = 8

AloneEncode(c) == encode(ec[1], callers[c].own.data, callers[c].own.code, StripeEnv)

AloneDecode(c) ==
    decode(ec[1], AloneEncode(c).data, AloneEncode(c).code, CallerErased, StripeEnv)

\* the result and the buffers of caller c are those of r
SameOutcome(c, r) ==
    /\ callers[c].res = r.res
    /\ callers[c].data = r.data
    /\ callers[c].code = r.code

\* C17: whatever the order of the encode and decode calls of the callers
\* of one instance, each on its own buffers, the instance stays as it was
\* built and every caller (here: every caller whose blocks are whole
\* groups of w packets) has the result and the buffer contents its calls
\* give when they run alone
C17_SharedInstance ==
    (phase = "built") =>
        /\ ec = build(builder, "release").ec
        /\ \A c \in Callers :
              (callers[c].phase # "idle" /\ InBounds(ec[1], Len(callers[c].own.data[1])))
                  => /\ callers[c].phase = "encoded" => SameOutcome(c, AloneEncode(c))
                     /\ callers[c].phase = "decoded" => SameOutcome(c, AloneDecode(c))

(***************************************************************************)
(* The properties of GaloisField.                                          *)
(***************************************************************************)
\* C18: try_from_word_size returns no handle exactly when w = 0 or w > 32:
\* it returns one for every w in 1..32, the widths other than 8, 16 and 32
\* included
C18_TryFromWordSize ==
    (gal.op = "try_from_word_size") =>
        /\ gal.gf = None <=> (gal.w = 0 \/ gal.w > 32)
        /\ gal.w \in 1..32 => (gal.gf # None /\ get_w(gal.gf[1]) = gal.w)

\* a handle was made for a width that is none of 8, 16 and 32
C18_Witness ==
    /\ gal.op = "try_from_word_size"
    /\ gal.w \in (1..32) \ {8, 16, 32}
    /\ gal.gf # None

\* the slices of the last region operation had one length, a multiple of
\* the machine long size
RegionAligned ==
    /\ Len(gal.pre.a) = Len(gal.pre.out)
    /\ gal.op = "region_add" => Len(gal.pre.b) = Len(gal.pre.a)
    /\ Len(gal.pre.a) % MACHINE_LONG_SIZE = 0

\* C19: with slices of one length that is a multiple of the machine long
\* size, region_add sets out[i] to a[i] xor b[i] and leaves a and b as they
\* were, region_acc sets buf[i] to buf[i] xor acc[i] and leaves acc as it
\* was, and both give, byte by byte, what the scalar add gives
C19_RegionXor ==
    /\ (gal.op = "region_add" /\ RegionAligned) =>
          /\ gal.res = Ok
          /\ Len(gal.out) = Len(gal.pre.out)
          /\ \A i \in DOMAIN gal.out :
                gal.out[i] = gf_add(gal.gf[1], gal.pre.a[i], gal.pre.b[i])
          /\ gal.a = gal.pre.a
          /\ gal.b = gal.pre.b
    /\ (gal.op = "region_acc" /\ RegionAligned) =>
          /\ gal.res = Ok
          /\ Len(gal.out) = Len(gal.pre.out)
          /\ \A i \in DOMAIN gal.out :
                gal.out[i] = gf_add(gal.gf[1], gal.pre.out[i], gal.pre.a[i])
          /\ gal.a = gal.pre.a

\* a region_add of 16 bytes into a slice that held neither b nor zeros
C19_Witness ==
    /\ gal.op = "region_add"
    /\ gal.res = Ok
    /\ Len(gal.pre.a) = 16
    /\ gal.pre.a # gal.pre.b
    /\ gal.pre.out # gal.pre.b
    /\ gal.out # gal.pre.out

\* C20: region_add and region_acc return InvalidRange when the lengths of
\* the slices differ and NotAligned when they are equal and no multiple of
\* the machine long size, and in both cases out (or buf) is as it was
C20_RegionErrors ==
    (gal.op \in {"region_add", "region_acc"}) =>
        /\ (\/ Len(gal.pre.a) # Len(gal.pre.out)
            \/ gal.op = "region_add" /\ Len(gal.pre.a) # Len(gal.pre.b))
              => (gal.res.kind = "InvalidRange" /\ gal.out = gal.pre.out)
        /\ (/\ Len(gal.pre.a) = Len(gal.pre.out)
            /\ gal.op = "region_add" => Len(gal.pre.a) = Len(gal.pre.b)
            /\ Len(gal.pre.a) % MACHINE_LONG_SIZE # 0)
              => (gal.res.kind = "NotAligned" /\ gal.out = gal.pre.out)

\* C21: region_multiply on a handle of a width in 1..32 other than 8, 16
\* and 32, with src and dest of one length that is a multiple of the
\* machine long size, returns NotSupported, does not panic and leaves dest
\* as it was
C21_RegionMultiplyWidth ==
    (/\ gal.op = "region_multiply"
     /\ gal.gf[1].w \in (1..32) \ {8, 16, 32}
     /\ RegionAligned)
        => /\ gal.res.kind = "NotSupported"
           /\ gal.out = gal.pre.out

\* byte i of a region of elements of w bits each xor-ed with add < 256
XorElements(region, add, w) ==
    [i \in 1..Len(region) |->
        IF (i - 1) % (w \div 8) = 0 THEN BitXor(region[i], add) ELSE region[i]]

\* C22: on a handle of width 8, 16 or 32, with src and dest of one length
\* that is a multiple of the machine long size, region_multiply leaves src
\* as it was and sets every element of dest to the product of the element
\* of src and the scalar, xor add, whatever dest held before
C22_RegionMultiply ==
    (/\ gal.op = "region_multiply"
     /\ gal.gf[1].w \in {8, 16, 32}
     /\ RegionAligned)
        => /\ gal.a = gal.pre.a
           /\ gal.out =
                XorElements(IF gal.gf[1].w = 32
                            THEN galois_w32_region_multiply(gal.pre.a, gal.pre.b[1],
                                                            <<>>, 0)
                            ELSE RegionProduct(gal.pre.a, gal.pre.b[1], gal.gf[1].w),
                            gal.pre.b[2], gal.gf[1].w)

(***************************************************************************)
(* The size check, the order of the checks of decode, the erased list.     *)
(***************************************************************************)
\* C23: for w in 1..32 and positive k and m, with the technique and the
\* coding method set, build rejects for the size exactly when k + m > 2^w
\* in unbounded integers, and the computation of k + m and of 2^w in 32
\* bits does not panic
C23_SizeCheck ==
    (/\ call.op = "build"
     /\ builder.k # None /\ builder.k[1] >= 1
     /\ builder.m # None /\ builder.m[1] >= 1
     /\ builder.tech # None
     /\ builder.coding_method # None
     /\ to_u8(builder.w) \in 1..32)
        => /\ ~(/\ res.kind = "Panic"
                /\ res.msg \in {"attempt to add with overflow",
                                "attempt to shift left with overflow"})
           /\ res = invalid_arguments("k + m must be less or equal than 2^w")
                <=> ~Fits(builder.k[1], builder.m[1], to_u8(builder.w))

\* the buffers of the last call fail a check of the buffers: a wrong number
\* of them, one of another length than the first, or one that is not aligned
BadBuffers ==
    \/ ~RightCounts
    \/ \E i \in DOMAIN Blocks(pre) :
          \/ Len(Blocks(pre)[i]) # Len(Blocks(pre)[1])
          \/ Len(Blocks(pre)[i]) % MACHINE_LONG_SIZE # 0

\* C24: decode checks the erased list before the buffers: given buffers
\* that fail a check, it still returns InvalidArguments when an index is out
\* of range and TooManyErasures when the indices are in range and more than
\* m of them are distinct
C24_ErasedBeforeBuffers ==
    (call.op = "decode" /\ BadBuffers) =>
        /\ ~AllInRange(call.erased)
              => res = invalid_arguments("erased index out of bounds")
        /\ (AllInRange(call.erased) /\ Cardinality(Indices(call.erased)) > ec[1].m)
              => res = too_many_erasure(Cardinality(Indices(call.erased)), ec[1].m)

\* a decode with buffers that are not aligned and a list of indices in
\* range, more than m of them distinct, was answered TooManyErasures
C24_Witness ==
    /\ call.op = "decode"
    /\ RightCounts
    /\ \E i \in DOMAIN Blocks(pre) : Len(Blocks(pre)[i]) % MACHINE_LONG_SIZE # 0
    /\ AllInRange(call.erased)
    /\ Cardinality(Indices(call.erased)) > ec[1].m
    /\ res.kind = "TooManyErasure"

\* lists with the indices of l in another order or with repetitions
SameSetLists(l) ==
    {[i \in 1..Len(l) |-> l[Len(l) + 1 - i]], l \o l, dedup(sorted(l))}

\* C25: what decode returns and leaves in the buffers depends on the set
\* of the indices of the erased list only: lists with the same indices in
\* another order or with repetitions give the same; a list with at most
\* m distinct indices in range is not rejected as TooManyErasures, however
\* long it is; the list handed to recovery is strictly ascending, holds the
\* indices of the list, and ends with one -1
C25_ErasedSet ==
    (call.op = "decode") =>
        /\ \A l \in SameSetLists(call.erased) :
              \E r \in {decode(ec[1], pre.data, pre.code, l, call.env)} :
                  r.res = res /\ r.data = data /\ r.code = code
        /\ (AllInRange(call.erased) /\ Cardinality(Indices(call.erased)) <= ec[1].m)
              => res.kind # "TooManyErasure"
        /\ AllInRange(call.erased) =>
              \E v \in {sanitize(ec[1], call.erased).v} :
                  /\ Len(v) = Cardinality(Indices(call.erased)) + 1
                  /\ v[Len(v)] = -1
                  /\ \A i \in 1..(Len(v) - 1) :
                        /\ v[i] \in Indices(call.erased)
                        /\ i < Len(v) - 1 => v[i] < v[i + 1]

\* a decode with a list that is longer than m, not ascending, with a
\* repeated index and at most m distinct indices returned Ok
C25_Witness ==
    /\ call.op = "decode"
    /\ AllInRange(call.erased)
    /\ Len(call.erased) > ec[1].m
    /\ Cardinality(Indices(call.erased)) <= ec[1].m
    /\ \E i \in 1..(Len(call.erased) - 1) : call.erased[i] > call.erased[i + 1]
    /\ res = Ok

(***************************************************************************)
(* The native structures.                                                  *)
(***************************************************************************)
\* how many times op ("alloc" or "free") was applied to the structure x
Count(op, x) == Cardinality({i \in DOMAIN heap : heap[i] = <<op, x>>})

\* the native structures an instance keeps for encode and decode
Kept(self) ==
    CASE self.tech.kind = "Matrix" -> {"matrix"}
      [] self.tech.kind = "BitMatrix" -> {"bitmatrix"}
      [] self.tech.kind = "Schedule" -> {"schedule", "bitmatrix"}
      [] self.tech.kind = "ScheduleCache" -> {"schedule", "cache"}

\* C26: when build returns Err, every native structure allocated during
\* the build (matrix, bit-matrix, schedule, schedule cache) has been
\* released
C26_FailedBuildReleases ==
    (call.op = "build" /\ res.kind \in ErrorKinds) =>
        \A x \in {"matrix", "bitmatrix", "schedule", "cache"} :
            Count("free", x) = Count("alloc", x)

\* C27: over the life of an instance that build returned, no structure is
\* released before it is allocated or more than once; while the instance
\* lives, the structures it keeps are allocated and not released and the
\* other structures made for it have been released once; after the drop
\* every structure made for it has been released once
C27_ReleasedOnce ==
    (phase \in {"built", "ended", "dropped"}) =>
        \A x \in {"matrix", "bitmatrix", "schedule", "cache"} :
            /\ Count("alloc", x) <= 1
            /\ \A i \in DOMAIN heap :
                  heap[i] = <<"free", x>> =>
                      /\ \E j \in 1..(i - 1) : heap[j] = <<"alloc", x>>
                      /\ \A j \in DOMAIN heap : heap[j] = heap[i] => j = i
            /\ x \in Kept(ec[1]) => Count("alloc", x) = 1
            /\ phase \in {"built", "ended"} =>
                  Count("free", x) = IF x \in Kept(ec[1]) THEN 0 ELSE Count("alloc", x)
            /\ phase = "dropped" => Count("free", x) = Count("alloc", x)

\* an instance of the Schedule technique encoded for a caller and was then
\* dropped: the matrix was released during build, the schedule and the
\* bit-matrix at the drop
C27_Witness ==
    /\ phase = "dropped"
    /\ ec[1].tech.kind = "Schedule"
    /\ \E c \in Callers : callers[c].phase \in {"encoded", "decoded"}
    /\ heap = <<<<"alloc", "matrix">>, <<"alloc", "bitmatrix">>, <<"free", "matrix">>,
                <<"alloc", "schedule">>, <<"free", "schedule">>,
                <<"free", "bitmatrix">>>>

(***************************************************************************)
(* The block length of the packet routines.                                *)
(***************************************************************************)
\* C28: on an instance of the technique BitMatrix, Schedule or
\* ScheduleCache, an encode or decode call with k data and m parity buffers
\* of one length that is a multiple of the machine long size (and, for
\* decode, a valid erased list) but no positive multiple of w * packet_size
\* returns an error and leaves the buffers as they were: the packet routine
\* is not run with such a length
C28_BlockLength ==
    (/\ call.op \in {"encode", "decode"}
     /\ tech(ec[1]) \in {"BitMatrix", "Schedule", "ScheduleCache"}
     /\ RightCounts
     /\ call.op = "decode" => ValidErased(call.erased)
     /\ \E L \in BlockLens :
           /\ CommonLen(L)
           /\ L % MACHINE_LONG_SIZE = 0
           /\ ~(L > 0 /\ L % (as_cint(ec[1].w) * ec[1].tech.packet_size) = 0))
        => /\ res.kind \in ErrorKinds
           /\ data = pre.data
           /\ code = pre.code

====
